---------------------------- MODULE Spec2Model ----------------------------
(***************************************************************************)
(* Production Schedule Dashboard (src/ProductionScheduleDashboard.py):     *)
(* the entry store, the dosing engine, persistence and auto-fill.          *)
(*                                                                         *)
(* Representation.                                                         *)
(*  - A date is its ordinal: the number of days since 2024-01-01 (a        *)
(*    Monday), so weekday(d) = d % 7 with Monday = 0 as in Python.         *)
(*  - A text is the sequence of its whitespace-separated words; the word   *)
(*    SP stands for leading or trailing whitespace, which strip() removes. *)
(*  - An entry key "<iso-date>_<row>" is the pair <<date, row>>; a         *)
(*    week_action_rows key "<y>-<m>_<w>" is the triple <<y, m, w>>.        *)
(*  - A value of ss.entries is [kind, text, cancelled]: kind "dict" is a   *)
(*    {"text", "cancelled"} record, kind "str" a bare Python string (its   *)
(*    cancelled field is unused and FALSE).                                *)
(***************************************************************************)
EXTENDS Integers, Sequences, FiniteSets, TLC

\* ------------------------------------------------------------------------
\* Calendar (Python datetime / calendar)
\* ------------------------------------------------------------------------
Years == {2024, 2025, 2026}

IsLeap(y) == (y % 4 = 0 /\ y % 100 # 0) \/ y % 400 = 0

YearLen(y) == IF IsLeap(y) THEN 366 ELSE 365

MonthLen(y, m) ==
    IF m = 2 THEN (IF IsLeap(y) THEN 29 ELSE 28)
    ELSE IF m \in {4, 6, 9, 11} THEN 30 ELSE 31

RECURSIVE DaysBeforeYear(_)
DaysBeforeYear(y) == IF y <= 2024 THEN 0 ELSE DaysBeforeYear(y - 1) + YearLen(y - 1)

RECURSIVE DaysBeforeMonth(_, _)
DaysBeforeMonth(y, m) == IF m <= 1 THEN 0 ELSE DaysBeforeMonth(y, m - 1) + MonthLen(y, m - 1)

\* date(y, m, d) as an ordinal
Ord(y, m, d) == DaysBeforeYear(y) + DaysBeforeMonth(y, m) + (d - 1)

MaxOrd == DaysBeforeYear(2027) - 1

\* date.fromordinal: the month and day of day-of-year o (0-based), from month m on
RECURSIVE MonthDayFrom(_, _, _)
MonthDayFrom(y, m, o) ==
    IF o < MonthLen(y, m) THEN [year |-> y, month |-> m, day |-> o + 1]
    ELSE MonthDayFrom(y, m + 1, o - MonthLen(y, m))

\* the (year, month, day) of ordinal o, from year y on
RECURSIVE DateFrom(_, _)
DateFrom(y, o) == IF o < YearLen(y) THEN MonthDayFrom(y, 1, o) ELSE DateFrom(y + 1, o - YearLen(y))

\* the (year, month, day) of every ordinal of the modelled years
DateTable == [o \in 0..MaxOrd |-> DateFrom(2024, o)]

YearOf(o) == DateTable[o].year
MonthOf(o) == DateTable[o].month
DayOf(o) == DateTable[o].day

\* date.weekday(): Monday = 0 .. Sunday = 6
weekday(o) == o % 7

\* _month_weeks_ext(y, m): the Monday..Sunday weeks that overlap the month, as
\* real dates (spillover days of the adjacent months included)
WeeksFrom(start, nweeks) == [w \in 1..nweeks |-> [i \in 1..7 |-> start + 7 * (w - 1) + (i - 1)]]

WeeksOfFirst(first, len) == WeeksFrom(first - weekday(first), (weekday(first) + len + 6) \div 7)

month_weeks_ext_of(y, m) == WeeksOfFirst(Ord(y, m, 1), MonthLen(y, m))

MonthWeeksTable == [ym \in (Years \X (1..12)) |-> month_weeks_ext_of(ym[1], ym[2])]

_month_weeks_ext(y, m) == MonthWeeksTable[<<y, m>>]

\* the index of the first week of weeks that holds target, else 0
HitsIn(weeks, target) == {w \in 1..Len(weeks) : \E i \in 1..7 : weeks[w][i] = target}

FirstHit(hits) == IF hits = {} THEN 0 ELSE (CHOOSE w \in hits : \A v \in hits : w <= v) - 1

WeekIndexIn(weeks, target) == FirstHit(HitsIn(weeks, target))

\* _week_index_for(y, m, target): index of the first week of (y, m) holding target, else 0
_week_index_for(y, m, target) == WeekIndexIn(_month_weeks_ext(y, m), target)

\* the week_action_rows key of a date of year y and month m
WeekKeyIn(y, m, target) == <<y, m, _week_index_for(y, m, target)>>

WeekKeyOfDate(dt, target) == WeekKeyIn(dt.year, dt.month, target)

\* the week_action_rows key of the date's own year and month
OwnWeekKey(target) == WeekKeyOfDate(DateTable[target], target)

\* date_key(y, m, d, row_idx)
date_key(y, m, d, row_idx) == <<Ord(y, m, d), row_idx>>


\* ------------------------------------------------------------------------
\* Texts: sequences of words
\* ------------------------------------------------------------------------
SP == " "

\* the patient codes of the model: words of the shape NNNNN-NNN
PatientCodes == {"10234-001", "20456-002"}

\* str.lower() of one word
LowerWord(w) ==
    CASE w = "Weekend" -> "weekend"
      [] w = "Delete" -> "delete"
      [] w = "Cancel" -> "cancel"
      [] w = "Cancelled" -> "cancelled"
      [] w = "MD1" -> "md1"
      [] w = "MD2" -> "md2"
      [] w = "MD3" -> "md3"
      [] w = "AC225" -> "ac225"
      [] w = "IN111" -> "in111"
      [] w = "Initial" -> "initial"
      [] w = "Dose" -> "dose"
      [] w = "Placeholder" -> "placeholder"
      [] w = "Outage" -> "outage"
      [] w = "Shutdown" -> "shutdown"
      [] w = "Run" -> "run"
      [] w = "SRx" -> "srx"
      [] OTHER -> w

Lower(t) == [i \in 1..Len(t) |-> LowerWord(t[i])]

\* str.strip(): drop leading and trailing whitespace
RECURSIVE LStrip(_)
LStrip(t) == IF t # << >> /\ Head(t) = SP THEN LStrip(Tail(t)) ELSE t

RECURSIVE RStrip(_)
RStrip(t) == IF t # << >> /\ t[Len(t)] = SP THEN RStrip(SubSeq(t, 1, Len(t) - 1)) ELSE t

Strip(t) == RStrip(LStrip(t))

HasWord(t, ws) == \E i \in 1..Len(t) : t[i] \in ws

\* 'ac' in text.lower(): the words whose lower case contains the letters "ac"
ACWords == {"ac225", "placeholder"}

MDWords == {"md1", "md2", "md3"}

Dashes == {"-"}

\* CONFIRMED_PATIENT_CAPTURE.match(txt.strip()): the leading NNNNN-NNN word, or
\* NoCode (Python None)
NoCode == "<none>"

_extract_patient_code(txt) ==
    LET s == Strip(txt)
    IN IF s # << >> /\ Head(s) \in PatientCodes THEN Head(s) ELSE NoCode

\* re.search(r"\bmd[123]\b", txt, re.IGNORECASE)
_is_maintenance(txt) == HasWord(Lower(txt), MDWords)

\* the tag of maintenance dose i: f"MD{i}"
MDTag(i) == CASE i = 1 -> "MD1" [] i = 2 -> "MD2" [] OTHER -> "MD3"

\* re.search(r"\bmd1\b", s, re.IGNORECASE), for dose i
HasMD(txt, i) == HasWord(Lower(txt), {LowerWord(MDTag(i))})

\* text.lower().endswith("cancel") or text.lower().endswith("cancelled")
EndsWithCancel(t) == t # << >> /\ LowerWord(t[Len(t)]) \in {"cancel", "cancelled"}

\* re.sub(r"\s*[-..]?\s*cancel(?:led)?$", "", text, flags=re.IGNORECASE).strip()
StripCancel(t) ==
    LET a == SubSeq(t, 1, Len(t) - 1)
        b == IF a # << >> /\ a[Len(a)] \in Dashes THEN SubSeq(a, 1, Len(a) - 1) ELSE a
    IN Strip(b)

\* re.search(r"\binitial\s*dose\b", s, re.IGNORECASE)
HasInitialDose(t) ==
    LET l == Lower(t)
    IN \E i \in 1..(Len(l) - 1) : l[i] = "initial" /\ l[i + 1] = "dose"

\* a variant that does not look for the words already in the text
SuffixWithoutLooking(txt) ==
    IF Strip(txt) # << >> /\ _extract_patient_code(Strip(txt)) # NoCode
       /\ ~_is_maintenance(Strip(txt))
    THEN Strip(txt) \o <<"Initial", "Dose">>
    ELSE Strip(txt)

\* _ensure_initial_suffix(txt)
_ensure_initial_suffix(txt) ==
    LET s == Strip(txt)
    IN IF s = << >> THEN s
       ELSE IF HasInitialDose(s) THEN s
       ELSE IF _extract_patient_code(s) # NoCode /\ ~_is_maintenance(s)
            THEN s \o <<"Initial", "Dose">>
       ELSE s

\* re.sub(r'\b(?:MD[123]|Initial(?:\s*Dose)?)\b', '', base, flags=re.IGNORECASE)
RECURSIVE DropDoseWords(_)
DropDoseWords(t) ==
    IF t = << >> THEN << >>
    ELSE IF LowerWord(Head(t)) \in MDWords THEN DropDoseWords(Tail(t))
    ELSE IF LowerWord(Head(t)) = "initial"
         THEN IF Len(t) >= 2 /\ LowerWord(t[2]) = "dose"
              THEN DropDoseWords(Tail(Tail(t)))
              ELSE DropDoseWords(Tail(t))
    ELSE <<Head(t)>> \o DropDoseWords(Tail(t))

\* the text of maintenance dose i that _schedule_patient_cycle derives from base_text
MaintenanceText(patient_code, base_text, i) ==
    LET base == IF Strip(base_text) # << >> THEN Strip(base_text) ELSE <<patient_code>>
        c1 == DropDoseWords(base)
        c2 == Strip(IF c1 # << >> /\ c1[Len(c1)] \in Dashes
                    THEN SubSeq(c1, 1, Len(c1) - 1) ELSE c1)
        c3 == IF HasWord(c2, {patient_code}) THEN c2
              ELSE IF c2 # << >> THEN <<patient_code, "-">> \o c2 ELSE <<patient_code>>
    IN Strip(c3 \o <<MDTag(i)>>)


\* ------------------------------------------------------------------------
\* Dictionaries
\* ------------------------------------------------------------------------
Get(f, k, default) == IF k \in DOMAIN f THEN f[k] ELSE default

Put(f, k, v) == [x \in (DOMAIN f) \cup {k} |-> IF x = k THEN v ELSE f[x]]

Del(f, ks) == [x \in (DOMAIN f) \ ks |-> f[x]]

Max(a, b) == IF a >= b THEN a ELSE b

EmptyDict == << >>

\* an entry value: a {"text", "cancelled"} dict, or a bare string
DictEntry(text, cancelled) == [kind |-> "dict", text |-> text, cancelled |-> cancelled]

StrEntry(text) == [kind |-> "str", text |-> text, cancelled |-> FALSE]

\* {"text": "", "cancelled": False}, the default of ss.entries.get(dkey, ...)
DefaultEntry == DictEntry(<< >>, FALSE)

\* ------------------------------------------------------------------------
\* State: the Streamlit session state ss, the schedule file, and the phase of
\* the interaction cycle ("idle": waiting for the user; "run": a callback or a
\* button handler has finished and the script is about to run top to bottom)
\* ------------------------------------------------------------------------
\* edits and faults count the user's edits and the failed writes of a behaviour;
\* act records the handler that ran last and, for a commit, its cell, the
\* text that was typed and the text the cell held (old_text), and whether the
\* file was newer than the session's time stamp when it started; uncaught is the
\* exception that escaped the step and that Streamlit shows, "" for none
VARIABLES ss, disk, pc, edits, faults, act, uncaught

vars == <<ss, disk, pc, edits, faults, act, uncaught>>

\* date.today() at session start
Today == <<2025, 1>>

\* ss["__disk_mtime__"] = None
NoMtime == 0

\* the session state after the setdefault block; pending stands for the three
\* __pending_*__ keys: << >> when they are None, else one record of the three
SessionInit ==
    [ current_month |-> Today[2],
      current_year |-> Today[1],
      week_action_rows |-> EmptyDict,
      entries |-> EmptyDict,
      custom_closures |-> << >>,
      autosave_ok |-> FALSE,
      autosave_error |-> "",
      disk_mtime |-> NoMtime,
      suppressed_us_holidays |-> << >>,
      custom_legend_entries |-> << >>,
      widgets |-> EmptyDict,
      do_rerun |-> FALSE,
      boot_loaded |-> FALSE,
      boot_error |-> "",
      last_meta |-> << >>,
      pending |-> << >> ]

\* no schedule file yet; now is the time stamp a write gets
NoFile == [state |-> "missing", data |-> << >>, mtime |-> 0, now |-> 1]

\* a world: the session state, the file, and the exception in flight ("" if none)
World(s, d) == [ss |-> s, disk |-> d, exc |-> ""]

Raise(w, e) == [w EXCEPT !.exc = e]

\* ------------------------------------------------------------------------
\* Persistence
\* ------------------------------------------------------------------------
\* _save_payload()
_save_payload(s) ==
    [ keys |-> {"meta", "entries", "week_action_rows", "custom_legend_entries",
                "suppressed_us_holidays"},
      meta |-> [year |-> s.current_year, month |-> s.current_month],
      entries |-> s.entries,
      week_action_rows |-> s.week_action_rows,
      custom_legend_entries |-> s.custom_legend_entries,
      suppressed_us_holidays |-> s.suppressed_us_holidays ]

\* _stat_mtime(p): None when the file does not exist
_stat_mtime(d) == IF d.state = "missing" THEN NoMtime ELSE d.mtime

\* a save that writes the file and leaves the recorded time stamp as it was
AutosaveKeepsOldMtime(w, io_ok) ==
    IF io_ok
    THEN [w EXCEPT !.disk = [w.disk EXCEPT !.state = "valid", !.data = _save_payload(w.ss),
                                           !.mtime = w.disk.now],
                   !.ss.autosave_ok = TRUE,
                   !.ss.autosave_error = ""]
    ELSE Raise([w EXCEPT !.ss.autosave_ok = FALSE, !.ss.autosave_error = "OSError"],
               "OSError")

\* _autosave_now(): io_ok tells whether mkdir and write_text succeed
_autosave_now(w, io_ok) ==
    IF io_ok
    THEN LET d == [w.disk EXCEPT !.state = "valid", !.data = _save_payload(w.ss),
                                 !.mtime = w.disk.now]
         IN [w EXCEPT !.disk = d,
                      !.ss.autosave_ok = TRUE,
                      !.ss.autosave_error = "",
                      !.ss.disk_mtime = _stat_mtime(d)]
    ELSE Raise([w EXCEPT !.ss.autosave_ok = FALSE, !.ss.autosave_error = "OSError"],
               "OSError")

\* a load that takes any JSON object for a schedule
LoadOkAnyObject(d) == d.state = "valid"

\* _try_load_from(path): TRUE when it returns entries (not None)
LoadOk(d) == d.state = "valid" /\ "entries" \in d.data.keys

\* a variant that upgrades a bare string without stripping it
NormalizeUnstripped(v) ==
    IF v.kind = "dict" THEN v ELSE DictEntry(v.text, FALSE)

\* the normalisation loop of _load_from_disk_into_state: one entry value
NormalizeEntry(v) ==
    IF v.kind = "dict" THEN v ELSE DictEntry(Strip(v.text), FALSE)

\* _preload_widgets_from_entries(): v.get("text", "") of every entry
_preload_widgets_from_entries(widgets, entries) ==
    [k \in (DOMAIN widgets) \cup (DOMAIN entries) |->
        IF k \in DOMAIN entries THEN entries[k].text ELSE widgets[k]]

\* _apply_meta_to_calendar(meta) on a file whose meta holds year and month
MetaChanged(s, meta) == meta.year # s.current_year \/ meta.month # s.current_month

\* _load_from_disk_into_state(): the state after a load that returns True
LoadedState(s, d) ==
    LET data == d.data
        normalized == [k \in DOMAIN data.entries |-> NormalizeEntry(data.entries[k])]
        hasMeta == "meta" \in data.keys
        changed == hasMeta /\ MetaChanged(s, data.meta)
    IN [s EXCEPT
          !.entries = normalized,
          !.week_action_rows =
              IF "week_action_rows" \in data.keys THEN data.week_action_rows ELSE EmptyDict,
          !.custom_legend_entries =
              IF "custom_legend_entries" \in data.keys
              THEN data.custom_legend_entries ELSE s.custom_legend_entries,
          !.suppressed_us_holidays =
              IF "suppressed_us_holidays" \in data.keys
              THEN data.suppressed_us_holidays ELSE s.suppressed_us_holidays,
          !.current_year = IF hasMeta THEN data.meta.year ELSE s.current_year,
          !.current_month = IF hasMeta THEN data.meta.month ELSE s.current_month,
          !.widgets = _preload_widgets_from_entries(s.widgets, normalized),
          !.disk_mtime = _stat_mtime(d),
          !.do_rerun = IF changed THEN TRUE ELSE s.do_rerun]

\* _load_from_disk_into_state(): unchanged state when nothing was loaded
_load_from_disk_into_state(w) ==
    IF LoadOk(w.disk) THEN [w EXCEPT !.ss = LoadedState(w.ss, w.disk)] ELSE w

\* _disk_watchdog()
_disk_watchdog(w) ==
    LET m == _stat_mtime(w.disk)
        last == w.ss.disk_mtime
    IN IF m = NoMtime THEN w
       ELSE IF last = NoMtime THEN [w EXCEPT !.ss.disk_mtime = m]
       ELSE IF m > last /\ LoadOk(w.disk)
            THEN [_load_from_disk_into_state(w) EXCEPT !.ss.disk_mtime = m,
                                                       !.ss.do_rerun = TRUE]
       ELSE w


\* ------------------------------------------------------------------------
\* Dosing engine
\* ------------------------------------------------------------------------
IntervalWeeks == 6

NMaint == 3

\* the text the helpers read from a stored value: entry.get("text", "") of a
\* dict, the string itself otherwise
TextOf(e) == e.text

RowsOf(s, key) == Get(s.week_action_rows, key, 1)

\* _first_empty_row_for_date(target)
_first_empty_row_for_date(s, target) ==
    LET num_rows == RowsOf(s, OwnWeekKey(target))
        Free(r) ==
            \/ <<target, r>> \notin DOMAIN s.entries
            \/ LET text == Strip(TextOf(s.entries[<<target, r>>]))
               IN text = << >> \/ Lower(text) \in {<<"weekend">>, <<"placeholder">>}
        free == {r \in 0..(num_rows - 1) : Free(r)}
    IN IF free = {} THEN num_rows ELSE CHOOSE r \in free : \A q \in free : r <= q

\* the texts of the store, over which a predicate on texts is given as the set
\* of the texts it accepts
StoreTexts(s) == {TextOf(s.entries[k]) : k \in DOMAIN s.entries}

\* _entry_exists_on_date(target, predicate): the rows 0 .. rows + 2 of the
\* date; accepted is the set of the store's texts the predicate accepts
_entry_exists_on_date(s, target, accepted) ==
    LET rows_to_check == RowsOf(s, OwnWeekKey(target)) + 3
    IN \E r \in 0..(rows_to_check - 1) :
          /\ <<target, r>> \in DOMAIN s.entries
          /\ TextOf(s.entries[<<target, r>>]) # << >>
          /\ TextOf(s.entries[<<target, r>>]) \in accepted

\* _add_entry_if_absent(target, text): the new value is a bare string
_add_entry_if_absent(s, target, text) ==
    LET text_norm == Lower(Strip(text))
        SameText(t) == Lower(Strip(t)) = text_norm
    IN IF _entry_exists_on_date(s, target, {t \in StoreTexts(s) : SameText(t)}) THEN s
       ELSE LET r == _first_empty_row_for_date(s, target)
                dk == <<target, r>>
            IN [s EXCEPT !.entries = Put(s.entries, dk, StrEntry(Strip(text))),
                         !.widgets = IF dk \in DOMAIN s.widgets THEN s.widgets
                                     ELSE Put(s.widgets, dk, Strip(text))]

\* a faulty variant: cur is not advanced, every dose lands on the first date
CalcDatesNotAdvanced(initial_dt, n_maint, interval_weeks) ==
    [i \in 1..n_maint |-> initial_dt + 7 * interval_weeks]

\* _calc_maintenance_dates(initial_dt, n_maint, interval_weeks)
_calc_maintenance_dates(initial_dt, n_maint, interval_weeks) ==
    [i \in 1..n_maint |-> initial_dt + 7 * interval_weeks * i]

\* _cycle_already_scheduled(patient_code, initial_dt, interval_weeks)
_cycle_already_scheduled(s, patient_code, initial_dt, interval_weeks) ==
    LET md1_date == initial_dt + 7 * interval_weeks
        IsMD1(t) == /\ Strip(t) # << >>
                    /\ LowerWord(Head(Strip(t))) = LowerWord(patient_code)
                    /\ HasMD(t, 1)
    IN _entry_exists_on_date(s, md1_date, {t \in StoreTexts(s) : IsMD1(t)})

\* the loop of _schedule_patient_cycle over the maintenance dates
RECURSIVE AddDoses(_, _, _, _, _)
AddDoses(s, patient_code, base_text, dates, i) ==
    IF i > Len(dates) THEN s
    ELSE AddDoses(_add_entry_if_absent(s, dates[i], MaintenanceText(patient_code, base_text, i)),
                  patient_code, base_text, dates, i + 1)

\* _schedule_patient_cycle(patient_code, initial_dt, n_maint, interval_weeks, base_text)
_schedule_patient_cycle(w, patient_code, initial_dt, n_maint, interval_weeks, base_text, io_ok) ==
    IF patient_code = NoCode THEN w
    ELSE IF base_text = << >> \/ ~HasWord(Lower(base_text), ACWords) THEN w
    ELSE IF _cycle_already_scheduled(w.ss, patient_code, initial_dt, interval_weeks) THEN w
    ELSE _autosave_now(
            [w EXCEPT !.ss = AddDoses(w.ss, patient_code, base_text,
                                      _calc_maintenance_dates(initial_dt, n_maint, interval_weeks), 1)],
            io_ok)

\* a variant that matches the maintenance doses of every patient
FindDosesOfAnyCode(s, patient_code) ==
    IF patient_code = NoCode THEN {}
    ELSE {k \in DOMAIN s.entries : _is_maintenance(TextOf(s.entries[k]))}

\* _find_maintenance_doses(patient_code): the keys of the MD1/MD2/MD3 entries
\* whose text contains the code
_find_maintenance_doses(s, patient_code) ==
    IF patient_code = NoCode THEN {}
    ELSE {k \in DOMAIN s.entries :
            /\ HasWord(Lower(TextOf(s.entries[k])), {LowerWord(patient_code)})
            /\ _is_maintenance(TextOf(s.entries[k]))}

\* ------------------------------------------------------------------------
\* Single-cell commit: the on_change callback of one text input
\* ------------------------------------------------------------------------
\* a variant without the except clause: the exception leaves the handler
BoundaryLetsThrough(w) == w

\* the except clause of the commit handlers
CommitBoundary(w) ==
    IF w.exc = "" THEN w
    ELSE [w EXCEPT !.ss.autosave_ok = FALSE, !.ss.autosave_error = w.exc, !.exc = ""]

\* the "delete" branch
CommitDelete(w, dkey, old_text, io_ok) ==
    LET patient_code == _extract_patient_code(old_text)
        mds == IF patient_code # NoCode /\ ~_is_maintenance(old_text)
               THEN _find_maintenance_doses(w.ss, patient_code) ELSE {}
        e1 == Del(w.ss.entries, mds \cup {dkey})
        g1 == Put(Del(w.ss.widgets, mds), dkey, << >>)
    IN _autosave_now([w EXCEPT !.ss.entries = e1, !.ss.widgets = g1], io_ok)

\* a variant that flags only the structured entries and passes over the bare
\* strings the scheduler writes
MarkCancelledDictsOnly(s, mds) ==
    [s EXCEPT !.entries = [k \in DOMAIN s.entries |->
                              IF k \in mds /\ s.entries[k].kind = "dict"
                              THEN DictEntry(TextOf(s.entries[k]), TRUE)
                              ELSE s.entries[k]]]

\* "Mark all maintenance doses as cancelled": the entries mds take
\* cancelled = TRUE and keep their text, their widgets are set to that text
MarkCancelled(s, mds) ==
    [s EXCEPT !.entries = [k \in DOMAIN s.entries |->
                              IF k \in mds THEN DictEntry(TextOf(s.entries[k]), TRUE)
                              ELSE s.entries[k]],
              !.widgets = [k \in DOMAIN s.widgets |->
                              IF k \in mds THEN TextOf(s.entries[k]) ELSE s.widgets[k]]]

\* "Update current entry"
UpdateEntry(s, dkey, val, cancelled) ==
    [s EXCEPT !.entries = Put(s.entries, dkey, DictEntry(val, cancelled)),
              !.widgets = Put(s.widgets, dkey, val)]

\* ss[RERUN_FLAG] = True after a scheduling call that returned
FlagRerun(w) == IF w.exc = "" THEN [w EXCEPT !.ss.do_rerun = TRUE] ELSE w

\* the final _autosave_now() of a handler, reached unless an exception is on its way
SaveUnlessRaised(w, io_ok) == IF w.exc # "" THEN w ELSE _autosave_now(w, io_ok)

\* "Only schedule maintenance doses if it's a new/active initial dose and not
\* cancelled", then the final save
ScheduleAndSave(w, dkey, val, cancelled, old_text, old_cancelled, patient_code, io_ok) ==
    IF /\ ~cancelled
       /\ (~old_cancelled \/ old_text = << >>)
       /\ patient_code # NoCode
       /\ ~_is_maintenance(val)
    THEN SaveUnlessRaised(
            FlagRerun(_schedule_patient_cycle(w, patient_code, dkey[1], NMaint, IntervalWeeks,
                                              val, io_ok)),
            io_ok)
    ELSE _autosave_now(w, io_ok)

\* the commit from "Extract patient code from new or old value" on
StoreFor(w, dkey, val, cancelled, old_text, old_cancelled, patient_code, io_ok) ==
    ScheduleAndSave(
        [w EXCEPT !.ss =
            UpdateEntry(
                IF cancelled /\ ~old_cancelled /\ patient_code # NoCode /\ ~_is_maintenance(old_text)
                THEN MarkCancelled(w.ss, _find_maintenance_doses(w.ss, patient_code))
                ELSE w.ss,
                dkey, val, cancelled)],
        dkey, val, cancelled, old_text, old_cancelled, patient_code, io_ok)

\* patient_code = _extract_patient_code(val) or _extract_patient_code(old_text)
CodeOr(code, old_text) == IF code # NoCode THEN code ELSE _extract_patient_code(old_text)

StoreVal(w, dkey, val, cancelled, old_text, old_cancelled, io_ok) ==
    StoreFor(w, dkey, val, cancelled, old_text, old_cancelled,
             CodeOr(_extract_patient_code(val), old_text), io_ok)

\* "Parse input and detect cancellation" for the stripped text
ParsedText(stripped) == IF EndsWithCancel(stripped) THEN StripCancel(stripped) ELSE stripped

ParsedCancelled(stripped, old_cancelled) == IF EndsWithCancel(stripped) THEN TRUE ELSE old_cancelled

StoreStripped(w, dkey, stripped, old_text, old_cancelled, io_ok) ==
    StoreVal(w, dkey, _ensure_initial_suffix(ParsedText(stripped)),
             ParsedCancelled(stripped, old_cancelled), old_text, old_cancelled, io_ok)

\* the branch that stores the text: cancellation, suffix, propagation, scheduling
CommitStore(w, dkey, raw_val, old_text, old_cancelled, io_ok) ==
    StoreStripped(w, dkey, Strip(raw_val), old_text, old_cancelled, io_ok)

\* the handler once old_entry is a dict: "delete", the blank guard, the store
CommitWith(w, dkey, raw_val, old_entry, io_ok) ==
    IF Lower(Strip(raw_val)) = <<"delete">>
    THEN CommitBoundary(CommitDelete(w, dkey, old_entry.text, io_ok))
    ELSE IF Strip(raw_val) = << >> /\ Strip(old_entry.text) # << >>
    THEN [w EXCEPT !.ss.widgets = Put(w.ss.widgets, dkey, old_entry.text)]
    ELSE CommitBoundary(CommitStore(w, dkey, raw_val, old_entry.text, old_entry.cancelled, io_ok))

\* a bare string at dkey is replaced by its dict before anything else
CommitRead(w, dkey, stored, io_ok) ==
    IF stored.kind = "str"
    THEN CommitWith([w EXCEPT !.ss.entries = Put(w.ss.entries, dkey, DictEntry(stored.text, FALSE))],
                    dkey, Get(w.ss.widgets, dkey, << >>), DictEntry(stored.text, FALSE), io_ok)
    ELSE CommitWith(w, dkey, Get(w.ss.widgets, dkey, << >>), stored, io_ok)

\* _commit_and_autosave(dkey, widget_key)
_commit_and_autosave(w, dkey, io_ok) ==
    CommitRead(w, dkey, Get(w.ss.entries, dkey, DefaultEntry), io_ok)


\* ------------------------------------------------------------------------
\* The script body: boot load, save on month change, watchdog, auto-fill,
\* row capacity, widget sync, grid rendering
\* ------------------------------------------------------------------------
\* holidays.US(years=y): date -> name
USHolidays(y) ==
    IF y = 2025
    THEN [d \in {Ord(2025, 1, 1), Ord(2025, 1, 20), Ord(2025, 2, 17), Ord(2025, 5, 26)} |->
            CASE d = Ord(2025, 1, 1) -> <<"New Year's Day">>
              [] d = Ord(2025, 1, 20) -> <<"Martin Luther King Jr. Day">>
              [] d = Ord(2025, 2, 17) -> <<"Washington's Birthday">>
              [] OTHER -> <<"Memorial Day">>]
    ELSE IF y = 2024
    THEN [d \in {Ord(2024, 12, 25)} |-> <<"Christmas Day">>]
    ELSE [d \in {Ord(2026, 1, 1)} |-> <<"New Year's Day">>]

HolidayTable == [y \in Years |-> USHolidays(y)]

InSeq(x, q) == \E i \in 1..Len(q) : q[i] = x

\* a variant that takes every row 0 as free
FillableAlways(current_text) == TRUE

\* the test of both auto-fill passes: row 0 is empty or holds "weekend" (any case)
FillableText(current_text) == current_text = << >> \/ Lower(current_text) = <<"weekend">>

\* one step of the holiday or closure pass: write name into row 0 of date d
FillRow0(s, d, name) ==
    LET dkey == <<d, 0>>
        entry == Get(s.entries, dkey, DefaultEntry)
        current_text == Strip(entry.text)
    IN IF FillableText(current_text)
       THEN [s EXCEPT !.entries = Put(s.entries, dkey, DictEntry(name, FALSE)),
                      !.widgets = IF dkey \in DOMAIN s.widgets THEN s.widgets
                                  ELSE Put(s.widgets, dkey, name)]
       ELSE s

InCurrentMonth(s, d) == MonthOf(d) = s.current_month /\ YearOf(d) = s.current_year

\* the federal holidays pass (each holiday has its own date)
RECURSIVE HolidayFillOver(_, _)
HolidayFillOver(s, ds) ==
    IF ds = {} THEN s
    ELSE LET d == CHOOSE x \in ds : \A z \in ds : x <= z
             hol == HolidayTable[s.current_year]
         IN HolidayFillOver(
                IF InCurrentMonth(s, d) /\ ~InSeq(hol[d], s.suppressed_us_holidays)
                THEN FillRow0(s, d, hol[d]) ELSE s,
                ds \ {d})

HolidayFill(s) == HolidayFillOver(s, DOMAIN HolidayTable[s.current_year])

\* the custom closures pass, in list order
RECURSIVE ClosureFillFrom(_, _)
ClosureFillFrom(s, i) ==
    IF i > Len(s.custom_closures) THEN s
    ELSE LET c == s.custom_closures[i]
         IN ClosureFillFrom(IF InCurrentMonth(s, c.date) THEN FillRow0(s, c.date, c.name) ELSE s,
                            i + 1)

ClosureFill(s) == ClosureFillFrom(s, 1)

\* the weeks of the visible month
VisibleWeeks(s) == _month_weeks_ext(s.current_year, s.current_month)

WeekKey(s, w_idx) == <<s.current_year, s.current_month, w_idx>>

\* a variant that sets every week to the rows its entries need
EnsureRowsToRequired(s) ==
    LET weeks == VisibleWeeks(s)
        Needed(w_idx) ==
            {k[2] + 1 : k \in {x \in DOMAIN s.entries :
                                  /\ InCurrentMonth(s, x[1])
                                  /\ \E i \in 1..7 : weeks[w_idx + 1][i] = x[1]}}
        Required(w_idx) ==
            IF Needed(w_idx) = {} THEN 1
            ELSE CHOOSE n \in Needed(w_idx) : \A q \in Needed(w_idx) : n >= q
        keys == {WeekKey(s, w_idx) : w_idx \in 0..(Len(weeks) - 1)}
    IN [s EXCEPT !.week_action_rows =
            [k \in (DOMAIN s.week_action_rows) \cup keys |->
                IF k \in keys THEN Required(k[3])
                ELSE s.week_action_rows[k]]]

\* _ensure_rows_for_current_month(valid_weeks)
_ensure_rows_for_current_month(s) ==
    LET weeks == VisibleWeeks(s)
        Needed(w_idx) ==
            {k[2] + 1 : k \in {x \in DOMAIN s.entries :
                                  /\ InCurrentMonth(s, x[1])
                                  /\ \E i \in 1..7 : weeks[w_idx + 1][i] = x[1]}}
        Required(w_idx) ==
            IF Needed(w_idx) = {} THEN 1
            ELSE CHOOSE n \in Needed(w_idx) : \A q \in Needed(w_idx) : n >= q
        keys == {WeekKey(s, w_idx) : w_idx \in 0..(Len(weeks) - 1)}
    IN [s EXCEPT !.week_action_rows =
            [k \in (DOMAIN s.week_action_rows) \cup keys |->
                IF k \in keys THEN Max(RowsOf(s, k), Required(k[3]))
                ELSE s.week_action_rows[k]]]

\* _sync_widgets_with_entries()
_sync_widgets_with_entries(s) ==
    [s EXCEPT !.widgets = [k \in (DOMAIN s.widgets) \cup (DOMAIN s.entries) |->
                              IF k \in DOMAIN s.entries THEN TextOf(s.entries[k])
                              ELSE s.widgets[k]]]

\* the cells the grid shows in the weeks ws: every day of the week, rows
\* 0 .. num_rows - 1 of the visible month's row count for that week
CellsOfWeeks(s, ws) ==
    LET weeks == VisibleWeeks(s)
    IN UNION {{<<weeks[w][i], r>> : i \in 1..7, r \in 0..(RowsOf(s, WeekKey(s, w - 1)) - 1)} :
                w \in ws}

VisibleCells(s) == CellsOfWeeks(s, 1..Len(VisibleWeeks(s)))

IsVisible(s, k) ==
    \E w \in 1..Len(VisibleWeeks(s)) :
        /\ \E i \in 1..7 : VisibleWeeks(s)[w][i] = k[1]
        /\ k[2] < RowsOf(s, WeekKey(s, w - 1))

\* the weekend test of the event-cell loop: Saturday or Sunday, text empty or "Weekend"
WeekendFillable(d, text_val) ==
    weekday(d) >= 5 /\ (text_val = << >> \/ text_val = <<"Weekend">>)

\* the event-cell loop over the weeks ws: bare strings become dicts, weekend
\* cells get "Weekend", widgets that do not exist yet get the cell's text
RenderWeeks(s, ws) ==
    LET cells == CellsOfWeeks(s, ws)
        Shown(k) ==
            IF k \notin DOMAIN s.entries THEN DefaultEntry
            ELSE IF s.entries[k].kind = "str" THEN DictEntry(Strip(s.entries[k].text), FALSE)
            ELSE s.entries[k]
        filled == {k \in cells : WeekendFillable(k[1], Shown(k).text)}
    IN [s EXCEPT
          !.entries = [k \in (DOMAIN s.entries) \cup filled |->
                          IF k \in filled THEN DictEntry(<<"Weekend">>, FALSE)
                          ELSE IF k \in cells THEN Shown(k)
                          ELSE s.entries[k]],
          !.widgets = [k \in (DOMAIN s.widgets) \cup cells |->
                          IF k \in filled THEN <<"Weekend">>
                          ELSE IF k \in DOMAIN s.widgets THEN s.widgets[k]
                          ELSE Shown(k).text]]

\* key order of a dict walk
KeyBefore(a, b) == a[1] < b[1] \/ (a[1] = b[1] /\ a[2] < b[2])

\* the boot load: ss.entries takes the file's values as they are, and
\* _preload_widgets_from_entries() raises AttributeError at the first bare string
BootLoad(w) ==
    IF w.ss.boot_loaded THEN w
    ELSE IF ~LoadOk(w.disk) THEN [w EXCEPT !.ss.boot_loaded = TRUE]
    ELSE LET data == w.disk.data
             s == w.ss
             hasMeta == "meta" \in data.keys
             strs == {k \in DOMAIN data.entries : data.entries[k].kind = "str"}
             done == {k \in DOMAIN data.entries : \A x \in strs : KeyBefore(k, x)}
             s1 == [s EXCEPT
                      !.boot_loaded = TRUE,
                      !.entries = data.entries,
                      !.week_action_rows =
                          IF "week_action_rows" \in data.keys
                          THEN data.week_action_rows ELSE EmptyDict,
                      !.custom_legend_entries =
                          IF "custom_legend_entries" \in data.keys
                          THEN data.custom_legend_entries ELSE s.custom_legend_entries,
                      !.suppressed_us_holidays =
                          IF "suppressed_us_holidays" \in data.keys
                          THEN data.suppressed_us_holidays ELSE s.suppressed_us_holidays,
                      !.current_year = IF hasMeta THEN data.meta.year ELSE s.current_year,
                      !.current_month = IF hasMeta THEN data.meta.month ELSE s.current_month,
                      !.widgets = [k \in (DOMAIN s.widgets) \cup done |->
                                      IF k \in done THEN data.entries[k].text ELSE s.widgets[k]]]
         IN IF strs # {}
            THEN [w EXCEPT !.ss = [s1 EXCEPT !.boot_error = "AttributeError"]]
            ELSE [w EXCEPT !.ss = [s1 EXCEPT !.disk_mtime = _stat_mtime(w.disk)]]

\* ss["__last_meta__"] = cur, unless the save raised
MetaNoted(w) ==
    IF w.exc # "" THEN w
    ELSE [w EXCEPT !.ss.last_meta = <<w.ss.current_year, w.ss.current_month>>]

\* "Persist meta if month/year changed": the save is not inside a try
MetaSave(w, io_ok) ==
    IF w.ss.last_meta = << >> THEN MetaNoted(w)
    ELSE IF w.ss.last_meta # <<w.ss.current_year, w.ss.current_month>>
    THEN MetaNoted(_autosave_now(w, io_ok))
    ELSE w

WatchdogUnlessRaised(w) == IF w.exc # "" THEN w ELSE _disk_watchdog(w)

\* the script from its top to the navigation buttons
ScriptHead(w, io_ok) == WatchdogUnlessRaised(MetaSave(BootLoad(w), io_ok))

\* the passes between the sidebar and the grid
AutoFill(s) == _sync_widgets_with_entries(_ensure_rows_for_current_month(ClosureFill(HolidayFill(s))))

\* a variant that renders the grid before the passes
RenderBeforeAutoFill(s) == AutoFill(RenderWeeks(s, 1..Len(VisibleWeeks(s))))

\* the auto-fill passes and the whole grid
AutoFillAndRender(s) == RenderWeeks(AutoFill(s), 1..Len(VisibleWeeks(s)))

RenderAll(w) ==
    IF w.exc # "" THEN w
    ELSE [w EXCEPT !.ss = [AutoFillAndRender(w.ss) EXCEPT !.do_rerun = FALSE]]

\* one run of the script in which no button is pressed; the final block
\* clears the rerun flag
ScriptBody(w, io_ok) == RenderAll(ScriptHead(w, io_ok))


\* ------------------------------------------------------------------------
\* Batch commit: _commit_all_widgets_and_autosave(), run by Prev and Next
\* ------------------------------------------------------------------------
\* the scheduling of the loop body: code = _extract_patient_code(new_val)
BatchSchedule(w, dkey, new_val, code, io_ok) ==
    IF code # NoCode /\ ~_is_maintenance(new_val)
    THEN FlagRerun(_schedule_patient_cycle(w, code, dkey[1], NMaint, IntervalWeeks, new_val, io_ok))
    ELSE w

\* "if new_val != old_text or cancelled != old_cancelled"
BatchChange(w, dkey, new_val, cancelled, old_entry, io_ok) ==
    IF new_val # old_entry.text \/ cancelled # old_entry.cancelled
    THEN BatchSchedule([w EXCEPT !.ss = UpdateEntry(w.ss, dkey, new_val, cancelled)],
                       dkey, new_val, _extract_patient_code(new_val), io_ok)
    ELSE w

\* the loop body once the widget and the stored value are read: old_entry.get
\* raises AttributeError on a bare string; a blank widget deletes the entry
BatchRead(w, dkey, stripped, stored, io_ok) ==
    IF stored.kind = "str" THEN Raise(w, "AttributeError")
    ELSE IF stripped = << >>
    THEN IF dkey \in DOMAIN w.ss.entries
         THEN [w EXCEPT !.ss.entries = Del(w.ss.entries, {dkey}),
                        !.ss.widgets = Put(w.ss.widgets, dkey, << >>)]
         ELSE w
    ELSE BatchChange(w, dkey, _ensure_initial_suffix(ParsedText(stripped)),
                     ParsedCancelled(stripped, stored.cancelled), stored, io_ok)

\* the loop body for one widget key
BatchCell(w, dkey, io_ok) ==
    BatchRead(w, dkey, Strip(w.ss.widgets[dkey]), Get(w.ss.entries, dkey, DefaultEntry), io_ok)

\* the loop body changes something in world w
Acts(w, dkey, io_ok) == BatchCell(w, dkey, io_ok) # w

\* the keys that only come to matter in w1, the world after an earlier key
LateKeys(w, w1, rem, io_ok) ==
    {j \in rem : ~Acts(w, j, io_ok) /\ w1.exc = "" /\ Acts(w1, j, io_ok)}

\* the loop walks list(ss.keys()), whose order is not fixed: the worlds the
\* loop can end in, each with the value of `changed`.  A key whose body
\* changes nothing where it stands is skipped; a key that only comes to matter
\* through an earlier key's scheduling may already have been passed (D).
RECURSIVE BatchLoop(_, _, _, _)
BatchAfter(w, w1, rem, io_ok) ==
    UNION {BatchLoop(w1, TRUE, rem \ D, io_ok) : D \in SUBSET LateKeys(w, w1, rem, io_ok)}

BatchOver(w, changed, rem, eff, io_ok) ==
    IF w.exc # "" \/ eff = {} THEN {<<w, changed>>}
    ELSE UNION {BatchAfter(w, BatchCell(w, k, io_ok), rem \ {k}, io_ok) : k \in eff}

BatchLoop(w, changed, rem, io_ok) ==
    BatchOver(w, changed, rem, {k \in rem : Acts(w, k, io_ok)}, io_ok)

\* the end of the try block and its except clause
BatchDone(w) ==
    IF w.exc = "" THEN [w EXCEPT !.ss.autosave_ok = TRUE, !.ss.autosave_error = ""]
    ELSE CommitBoundary(w)

\* a batch commit that sets the flags and never writes the file
BatchNeverSaves(w, changed, io_ok) == BatchDone(w)

\* "if changed: _autosave_now()"
BatchSave(w, changed, io_ok) ==
    BatchDone(IF w.exc = "" /\ changed THEN _autosave_now(w, io_ok) ELSE w)

\* _commit_all_widgets_and_autosave(): the worlds it can return
_commit_all_widgets_and_autosave(w, io_ok) ==
    {BatchSave(r[1], r[2], io_ok) : r \in BatchLoop(w, FALSE, DOMAIN w.ss.widgets, io_ok)}

\* the handler of a navigation button, after the top of the script
NavWorlds(w, io_ok) ==
    IF w.exc # "" THEN {w} ELSE _commit_all_widgets_and_autosave(w, io_ok)

PrevMonth(s) ==
    IF s.current_month - 1 < 1
    THEN [s EXCEPT !.current_month = 12, !.current_year = s.current_year - 1]
    ELSE [s EXCEPT !.current_month = s.current_month - 1]

NextMonth(s) ==
    IF s.current_month + 1 > 12
    THEN [s EXCEPT !.current_month = 1, !.current_year = s.current_year + 1]
    ELSE [s EXCEPT !.current_month = s.current_month + 1]


\* ------------------------------------------------------------------------
\* Inputs and bounds
\* ------------------------------------------------------------------------
P1 == "10234-001"

P2 == "20456-002"

\* the texts a user types into a cell
InputTexts ==
    { <<P1, "AC225">>,
      <<P2, "AC225">>,
      <<P1, "AC225", "-", "cancel">>,
      <<P2, "AC225", "Cancelled">>,
      <<"Delete">>,
      <<"Note">>,
      << >> }

\* the dates a user types into: a Monday whose 6-week offset is a federal
\* holiday, and a Saturday of February that the January grid shows as well
EditDates == {Ord(2025, 1, 6), Ord(2025, 2, 1)}

\* the dates whose week the user grows and shrinks with the row buttons
RowDates == {Ord(2025, 2, 1)}

\* the closures a user defines
ClosureChoices == {[name |-> <<"Inventory">>, date |-> Ord(2025, 2, 1)]}

\* rows a week can be grown to with the add-row button
MaxRows == 2

\* months the user may navigate away from the start month
NavBack == 0

NavAhead == 1

\* user edits (typing, row buttons, closures, restarts) in one behaviour
MaxEdits == 3

\* handlers of one behaviour during which the directory is not writable
MaxFaults == 2

MonthIndex(y, m) == 12 * y + m

\* ------------------------------------------------------------------------
\* Actions
\* ------------------------------------------------------------------------
Here == World(ss, disk)

\* the step ends in world w; an exception that escaped a handler stops the run
Finish(w, next_pc) ==
    /\ ss' = w.ss
    /\ disk' = w.disk
    /\ pc' = IF w.exc # "" THEN "idle" ELSE next_pc
    /\ uncaught' = w.exc

\* the handler that ran
Did(op, dkey, raw_val) ==
    act' = [op |-> op, dkey |-> dkey, raw |-> raw_val,
            old |-> IF dkey \in DOMAIN ss.entries THEN ss.entries[dkey].text ELSE << >>,
            stale |-> /\ disk.state = "valid" /\ ss.disk_mtime # NoMtime
                      /\ disk.mtime > ss.disk_mtime]

DidOp(op) == Did(op, << >>, << >>)

\* the budget of an edit and of a failing write
EditWithin(max_edits) == edits < max_edits /\ edits' = edits + 1

Edit == EditWithin(MaxEdits)

NoEdit == edits' = edits

Fault(io_ok) == IF io_ok THEN faults' = faults ELSE faults < MaxFaults /\ faults' = faults + 1

\* the script runs top to bottom with no button pressed
ScriptRun(io_ok) ==
    /\ NoEdit /\ Fault(io_ok)
    /\ DidOp("run")
    /\ Finish(ScriptBody(Here, io_ok), "idle")

\* the user types raw_val into the cell dkey: its on_change callback runs
CommitWithin(dkey, raw_val, io_ok, max_edits) ==
    /\ pc = "idle"
    /\ EditWithin(max_edits) /\ Fault(io_ok)
    /\ Did("commit", dkey, raw_val)
    /\ IsVisible(ss, dkey)
    /\ Get(ss.widgets, dkey, << >>) # raw_val
    /\ Finish(_commit_and_autosave(
                  [Here EXCEPT !.ss.widgets = Put(ss.widgets, dkey, raw_val)], dkey, io_ok),
              "run")

Commit(dkey, raw_val, io_ok) == CommitWithin(dkey, raw_val, io_ok, MaxEdits)

\* the "Prev" button
NavPrev(io_ok) ==
    /\ pc = "idle"
    /\ NoEdit /\ Fault(io_ok)
    /\ DidOp("prev")
    /\ MonthIndex(ss.current_year, ss.current_month) > MonthIndex(Today[1], Today[2]) - NavBack
    /\ \E w2 \in NavWorlds(ScriptHead(Here, io_ok), io_ok) :
          Finish(IF w2.exc # "" THEN w2 ELSE [w2 EXCEPT !.ss = PrevMonth(w2.ss)], "run")

\* the "Next" button
NavNext(io_ok) ==
    /\ pc = "idle"
    /\ NoEdit /\ Fault(io_ok)
    /\ DidOp("next")
    /\ MonthIndex(ss.current_year, ss.current_month) < MonthIndex(Today[1], Today[2]) + NavAhead
    /\ \E w2 \in NavWorlds(ScriptHead(Here, io_ok), io_ok) :
          Finish(IF w2.exc # "" THEN w2 ELSE [w2 EXCEPT !.ss = NextMonth(w2.ss)], "run")

\* the auto-fill passes and the weeks above week w_idx
RenderTo(w, w_idx) ==
    IF w.exc # "" THEN w ELSE [w EXCEPT !.ss = RenderWeeks(AutoFill(w.ss), 1..w_idx)]

\* the script from its top to the row buttons of week w_idx: the weeks above
\* are rendered
ScriptToWeek(w, w_idx, io_ok) == RenderTo(ScriptHead(w, io_ok), w_idx)

\* the weeks of the visible month that show one of the dates
WeeksShowing(s, dates) ==
    {w_idx \in 0..(Len(VisibleWeeks(s)) - 1) :
        \E i \in 1..7 : VisibleWeeks(s)[w_idx + 1][i] \in dates}

RowWeeks(s) == WeeksShowing(s, RowDates)

\* the add-row button, once the script has reached it in world w
AddRowHandler(w, w_idx, io_ok) ==
    IF w.exc # "" THEN w
    ELSE _autosave_now([w EXCEPT !.ss.week_action_rows =
                           Put(w.ss.week_action_rows, WeekKey(w.ss, w_idx),
                               RowsOf(w.ss, WeekKey(w.ss, w_idx)) + 1)],
                       io_ok)

\* the add-row button of week w_idx, for a week that shows one of the dates
\* and has fewer than max_rows rows
AddRowWithin(w_idx, io_ok, dates, max_rows, max_edits) ==
    /\ pc = "idle"
    /\ EditWithin(max_edits) /\ Fault(io_ok)
    /\ DidOp("add_row")
    /\ w_idx \in WeeksShowing(ss, dates)
    /\ \E w1 \in {ScriptToWeek(Here, w_idx, io_ok)} :
          /\ RowsOf(w1.ss, WeekKey(w1.ss, w_idx)) < max_rows
          /\ Finish(AddRowHandler(w1, w_idx, io_ok), "run")

AddRow(w_idx, io_ok) == AddRowWithin(w_idx, io_ok, RowDates, MaxRows, MaxEdits)

\* the in-month days of week w_idx: the non-zero days of calendar.monthcalendar
MonthDaysOfWeek(s, w_idx) == {d \in {VisibleWeeks(s)[w_idx + 1][i] : i \in 1..7} : InCurrentMonth(s, d)}

\* the remove-row button of week w_idx
RemoveRowHandler(w, w_idx, io_ok) ==
    LET s == w.ss
        week_key == WeekKey(s, w_idx)
        current_rows == RowsOf(s, week_key)
        last == {<<d, current_rows - 1>> : d \in MonthDaysOfWeek(s, w_idx)}
        present == last \cap DOMAIN s.entries
        Blank(k) == LET text_val == Strip(s.entries[k].text)
                    IN text_val = << >> \/ text_val = <<"Weekend">>
    IN IF w.exc # "" \/ current_rows <= 1 THEN w
       ELSE IF \E k \in present : s.entries[k].kind = "str" THEN Raise(w, "AttributeError")
       ELSE IF \A k \in present : Blank(k)
       THEN _autosave_now(
               [w EXCEPT !.ss.entries = Del(s.entries, last),
                         !.ss.widgets = Del(s.widgets, last),
                         !.ss.week_action_rows = Put(s.week_action_rows, week_key, current_rows - 1)],
               io_ok)
       ELSE w

RemoveRow(w_idx, io_ok) ==
    /\ pc = "idle"
    /\ Edit /\ Fault(io_ok)
    /\ DidOp("remove_row")
    /\ w_idx \in RowWeeks(ss)
    /\ Finish(RemoveRowHandler(ScriptToWeek(Here, w_idx, io_ok), w_idx, io_ok), "run")

\* the "Add Holiday" form, once the script has reached it in world w
AddClosureHandler(w, c, io_ok) ==
    IF w.exc # "" THEN w
    ELSE _autosave_now([w EXCEPT !.ss.custom_closures = Append(w.ss.custom_closures, c)], io_ok)

\* the "Add Holiday" form
AddClosure(c, io_ok) ==
    /\ pc = "idle"
    /\ Edit /\ Fault(io_ok)
    /\ DidOp("add_closure")
    /\ ~InSeq(c, ss.custom_closures)
    /\ Finish(AddClosureHandler(ScriptHead(Here, io_ok), c, io_ok), "run")

\* the browser session ends and a new one starts: a fresh session state
Restart ==
    /\ pc = "idle"
    /\ Edit /\ faults' = faults
    /\ DidOp("restart")
    /\ ss.boot_loaded
    /\ ss' = SessionInit
    /\ pc' = "run"
    /\ uncaught' = ""
    /\ UNCHANGED disk

Init ==
    /\ ss = SessionInit
    /\ disk = NoFile
    /\ pc = "run"
    /\ edits = 0
    /\ faults = 0
    /\ act = [op |-> "start", dkey |-> << >>, raw |-> << >>, old |-> << >>, stale |-> FALSE]
    /\ uncaught = ""

\* the cells a user types into
EditCells == EditDates \X (0..(MaxRows - 1))

\* the directory stays writable
Next ==
    \/ ScriptRun(TRUE)
    \/ \E dkey \in EditCells, raw_val \in InputTexts : Commit(dkey, raw_val, TRUE)
    \/ NavPrev(TRUE)
    \/ NavNext(TRUE)
    \/ \E w_idx \in 0..5 : AddRow(w_idx, TRUE)
    \/ \E w_idx \in 0..5 : RemoveRow(w_idx, TRUE)
    \/ \E c \in ClosureChoices : AddClosure(c, TRUE)
    \/ Restart

Spec == Init /\ [][Next]_vars

\* ------------------------------------------------------------------------
\* A week grown to five rows: the user adds rows to the last week of the
\* February grid, which shows 2025-03-01, types into the first and the fifth
\* row of that date and into 2025-01-18, six weeks earlier
\* ------------------------------------------------------------------------
MaxRowsDeep == 5

MaxEditsDeep == 8

DeepRowDates == {Ord(2025, 3, 1)}

DeepCells ==
    {<<Ord(2025, 1, 18), 0>>, <<Ord(2025, 3, 1), 0>>, <<Ord(2025, 3, 1), MaxRowsDeep - 1>>}

DeepTexts == { <<P1, "AC225">>, <<P1, "AC225", "MD1">>, <<"Delete">> }

NextRows ==
    \/ ScriptRun(TRUE)
    \/ \E dkey \in DeepCells, raw_val \in DeepTexts : CommitWithin(dkey, raw_val, TRUE, MaxEditsDeep)
    \/ NavPrev(TRUE)
    \/ NavNext(TRUE)
    \/ \E w_idx \in 0..5 : AddRowWithin(w_idx, TRUE, DeepRowDates, MaxRowsDeep, MaxEditsDeep)

SpecRows == Init /\ [][NextRows]_vars


\* ------------------------------------------------------------------------
\* Loads: sessions that start on a file already on disk, the buttons below
\* the grid, and writes of the file by another program
\* ------------------------------------------------------------------------
\* a file of the first version of the dashboard: {"meta", "entries"}, every
\* entry the raw widget string; the March cell is off the January grid
LegacyFile ==
    [ keys |-> {"meta", "entries"},
      meta |-> [year |-> 2025, month |-> 1],
      entries |-> (<<Ord(2025, 1, 6), 0>> :> StrEntry(<<P1, "AC225">>)
                   @@ <<Ord(2025, 3, 3), 0>> :> StrEntry(<<"Note", SP>>)),
      week_action_rows |-> EmptyDict,
      custom_legend_entries |-> << >>,
      suppressed_us_holidays |-> << >> ]

\* a file of structured entries with a grown week, a legend entry and a
\* suppressed holiday
StructuredFile ==
    [ keys |-> {"meta", "entries", "week_action_rows", "custom_legend_entries",
                "suppressed_us_holidays"},
      meta |-> [year |-> 2025, month |-> 1],
      entries |-> (<<Ord(2025, 1, 6), 0>> :> DictEntry(<<P1, "AC225", "Initial", "Dose">>, TRUE)
                   @@ <<Ord(2025, 1, 7), 1>> :> DictEntry(<<"Note">>, FALSE)),
      week_action_rows |-> (<<2025, 1, 1>> :> 2),
      custom_legend_entries |-> << [label |-> <<"Outage">>, color |-> "#3366cc"] >>,
      suppressed_us_holidays |-> << <<"Martin Luther King Jr. Day">> >> ]

\* a file as the scheduler leaves it: the typed dose structured, a scheduled
\* maintenance dose a bare string
MixedFile ==
    [ keys |-> {"meta", "entries", "week_action_rows", "custom_legend_entries",
                "suppressed_us_holidays"},
      meta |-> [year |-> 2025, month |-> 2],
      entries |-> (<<Ord(2025, 1, 6), 0>> :> DictEntry(<<P2, "AC225", "Initial", "Dose">>, FALSE)
                   @@ <<Ord(2025, 2, 17), 0>> :> StrEntry(<<P2, "AC225", "MD1">>)),
      week_action_rows |-> EmptyDict,
      custom_legend_entries |-> << >>,
      suppressed_us_holidays |-> << >> ]

\* a JSON object without the key "entries"
NoEntriesFile ==
    [ keys |-> {"meta", "week_action_rows"},
      meta |-> [year |-> 2025, month |-> 2],
      entries |-> EmptyDict,
      week_action_rows |-> (<<2025, 1, 1>> :> 2),
      custom_legend_entries |-> << >>,
      suppressed_us_holidays |-> << >> ]

Files == {LegacyFile, StructuredFile, MixedFile, NoEntriesFile}

\* the number of writes by another program in a behaviour
MaxWrites == 1

FileOf(data) == [state |-> "valid", data |-> data, mtime |-> 1, now |-> 1]

\* a file that json.loads rejects
CorruptFile == [state |-> "corrupt", data |-> << >>, mtime |-> 1, now |-> 1]

StartDisks == {NoFile, CorruptFile} \cup {FileOf(f) : f \in Files}

\* the auto-fill passes and the whole grid, unless an exception is on its way
RenderFoot(w) == IF w.exc # "" THEN w ELSE [w EXCEPT !.ss = AutoFillAndRender(w.ss)]

\* the script from its top to the buttons below the grid
ScriptToFoot(w, io_ok) == RenderFoot(ScriptHead(w, io_ok))

\* "FINAL SAFE RERUN"
FinalRerun(w) == IF w.exc # "" THEN w ELSE [w EXCEPT !.ss.do_rerun = FALSE]

\* the "Save Now" button: the save is not inside a try
SaveNowHandler(w, io_ok) == IF w.exc # "" THEN w ELSE _autosave_now(w, io_ok)

SaveNow(io_ok) ==
    /\ pc = "idle"
    /\ NoEdit /\ Fault(io_ok)
    /\ DidOp("save")
    /\ Finish(FinalRerun(SaveNowHandler(ScriptToFoot(Here, io_ok), io_ok)), "idle")

\* the "Reload from disk" button
ReloadHandler(w) ==
    IF w.exc # "" \/ ~LoadOk(w.disk) THEN w
    ELSE [_load_from_disk_into_state(w) EXCEPT !.ss.disk_mtime = _stat_mtime(w.disk),
                                               !.ss.do_rerun = TRUE]

Reload(io_ok) ==
    /\ pc = "idle"
    /\ NoEdit /\ Fault(io_ok)
    /\ DidOp("reload")
    /\ \E w1 \in {ScriptToFoot(Here, io_ok)} :
          Finish(FinalRerun(ReloadHandler(w1)), IF LoadOk(w1.disk) THEN "run" ELSE "idle")

\* another program replaces the file: its time stamp is later than any before
ExternalWrite(data) ==
    /\ disk.now <= MaxWrites
    /\ disk' = [state |-> "valid", data |-> data, mtime |-> disk.now + 1, now |-> disk.now + 1]
    /\ DidOp("write")
    /\ UNCHANGED <<ss, pc, edits, faults, uncaught>>

\* the cell and the texts typed in these sessions
LoadCells == {<<Ord(2025, 1, 6), 0>>}

LoadTexts == { <<P1, "AC225">>, <<"Note">> }

InitLoad ==
    /\ ss = SessionInit
    /\ disk \in StartDisks
    /\ pc = "run"
    /\ edits = 0
    /\ faults = 0
    /\ act = [op |-> "start", dkey |-> << >>, raw |-> << >>, old |-> << >>, stale |-> FALSE]
    /\ uncaught = ""

NextLoad ==
    \/ ScriptRun(TRUE)
    \/ \E dkey \in LoadCells, raw_val \in LoadTexts : Commit(dkey, raw_val, TRUE)
    \/ SaveNow(TRUE)
    \/ Reload(TRUE)
    \/ \E data \in Files : ExternalWrite(data)
    \/ Restart

SpecLoad == InitLoad /\ [][NextLoad]_vars


\* ------------------------------------------------------------------------
\* The colour classifier and the legend sidebar
\* ------------------------------------------------------------------------
COLOR_AC225_RUN_EVG == "#A2EBCD"

COLOR_IN111_RUN_EVG == "#6EC6A8"

COLOR_AC225_RUN_SRX == "#F1E183"

COLOR_IN111_RUN_SRX == "#EC712A"

COLOR_CARDINAL_TPI_NIOWAVE == "#0ABB21"

COLOR_NMCTG == "#D0B9E6"

COLOR_PLACEHOLDER == "#F1E429"

COLOR_SHUTDOWN == "#F5253A"

COLOR_CONFIRMED == "#FF0000"

COLOR_PV == "#3CD63C"

COLOR_SRX == "#3ACCC0"

COLOR_PERCEPTIVE == "#9A6DC1"

COLOR_BWXT == "#3D6E34"

COLOR_MD == "#CC3366"

COLOR_FALLBACK == "#87CEEB"

COLOR_WEEKEND == "#FEF3C7"

COLOR_US_HOLIDAY == "#FF6F3C"

COLOR_CANCELLED == "#E5E7EB"

\* sub in text, for two texts in lower case: the words of sub in a row
Contains(text, sub) ==
    \E i \in 0..(Len(text) - Len(sub)) : SubSeq(text, i + 1, i + Len(sub)) = sub

\* re.search(r"a.*run.*b", lower): the three words in this order
RunOf(lower, a, b) ==
    \E i, j, k \in 1..Len(lower) :
        i < j /\ j < k /\ lower[i] = a /\ lower[j] = "run" /\ lower[k] = b

\* the words of the shape NNNNN-pN
PlaceholderCodes == {"10234-p1"}

\* item["label"].strip().lower() in lower
LegendHit(item, lower) == Contains(lower, Lower(Strip(item.label)))

\* lower in [h.lower() for h in us_holidays.values()], or the name of a closure
IsHolidayName(lower, s) ==
    \/ \E d \in DOMAIN HolidayTable[s.current_year] :
          Lower(HolidayTable[s.current_year][d]) = lower
    \/ \E i \in 1..Len(s.custom_closures) : Lower(Strip(s.custom_closures[i].name)) = lower

\* the rules of get_color below the legend loop, for a non-empty lower
BuiltInColor(lower, s) ==
    IF lower = <<"weekend">> THEN COLOR_WEEKEND
    ELSE IF IsHolidayName(lower, s) THEN COLOR_US_HOLIDAY
    ELSE IF HasWord(lower, {"shutdown"}) THEN COLOR_SHUTDOWN
    ELSE IF RunOf(lower, "in111", "srx") THEN COLOR_IN111_RUN_SRX
    ELSE IF RunOf(lower, "ac225", "srx") THEN COLOR_AC225_RUN_SRX
    ELSE IF RunOf(lower, "in111", "evg") THEN COLOR_IN111_RUN_EVG
    ELSE IF RunOf(lower, "ac225", "evg") THEN COLOR_AC225_RUN_EVG
    ELSE IF Head(lower) \in {"cardinal", "tpi", "niowave"} THEN COLOR_CARDINAL_TPI_NIOWAVE
    ELSE IF HasWord(lower, {"nmctg"}) THEN COLOR_NMCTG
    ELSE IF Head(lower) \in PlaceholderCodes THEN COLOR_PLACEHOLDER
    ELSE IF Head(lower) \in PatientCodes
         THEN IF lower[Len(lower)] \in MDWords THEN COLOR_MD ELSE COLOR_CONFIRMED
    ELSE IF Head(lower) = "pv" /\ HasWord(lower, {"srx"}) THEN COLOR_PV
    ELSE IF lower = <<"srx", "maintenance">> THEN COLOR_SRX
    ELSE IF HasWord(lower, {"perceptive"}) THEN COLOR_PERCEPTIVE
    ELSE IF lower = <<"bwxt", "order">> THEN COLOR_BWXT
    ELSE COLOR_FALLBACK

\* the legend loop: the colour of the first item whose label is in lower
RECURSIVE LegendColor(_, _, _)
LegendColor(legend, lower, otherwise) ==
    IF legend = << >> THEN otherwise
    ELSE IF LegendHit(Head(legend), lower) THEN Head(legend).color
    ELSE LegendColor(Tail(legend), lower, otherwise)

\* a variant that tries the built-in rules before the legend
GetColorBuiltInFirst(entry, s) ==
    IF entry.kind # "dict" \/ Strip(entry.text) = << >> THEN "white"
    ELSE IF entry.cancelled THEN COLOR_CANCELLED
    ELSE IF BuiltInColor(Lower(Strip(entry.text)), s) # COLOR_FALLBACK
         THEN BuiltInColor(Lower(Strip(entry.text)), s)
    ELSE LegendColor(s.custom_legend_entries, Lower(Strip(entry.text)), COLOR_FALLBACK)

\* get_color(entry)
get_color(entry, s) ==
    IF entry.kind # "dict" THEN "white"
    ELSE IF Strip(entry.text) = << >> THEN "white"
    ELSE IF entry.cancelled THEN COLOR_CANCELLED
    ELSE LegendColor(s.custom_legend_entries, Lower(Strip(entry.text)),
                     BuiltInColor(Lower(Strip(entry.text)), s))

\* the legend items a user defines, and how many
LegendChoices ==
    { [label |-> <<"Outage">>, color |-> "#3366cc"],
      [label |-> <<"AC225">>, color |-> "#112233"] }

MaxLegend == 2

\* the "Add Legend Item" button of the sidebar, once the script has reached
\* it in world w: the item is appended and the script reruns; nothing is saved
AddLegendHandler(w, item) ==
    IF w.exc # "" \/ Strip(item.label) = << >> THEN w
    ELSE [w EXCEPT !.ss.custom_legend_entries =
                       Append(w.ss.custom_legend_entries,
                              [label |-> Strip(item.label), color |-> item.color])]

AddLegend(item, io_ok) ==
    /\ pc = "idle"
    /\ Edit /\ Fault(io_ok)
    /\ DidOp("add_legend")
    /\ Len(ss.custom_legend_entries) < MaxLegend
    /\ Finish(AddLegendHandler(ScriptHead(Here, io_ok), item), "run")

\* the delete button of the custom legend item at index
DelLegendHandler(w, index) ==
    IF w.exc # "" THEN w
    ELSE [w EXCEPT !.ss.custom_legend_entries =
                       SubSeq(w.ss.custom_legend_entries, 1, index - 1)
                       \o SubSeq(w.ss.custom_legend_entries, index + 1,
                                 Len(w.ss.custom_legend_entries))]

DelLegend(index, io_ok) ==
    /\ pc = "idle"
    /\ Edit /\ Fault(io_ok)
    /\ DidOp("del_legend")
    /\ \E w1 \in {ScriptHead(Here, io_ok)} :
          /\ index \in 1..Len(w1.ss.custom_legend_entries)
          /\ Finish(DelLegendHandler(w1, index), "run")

\* the cell and the texts typed while the legend is edited
ColorCells == {<<Ord(2025, 1, 6), 0>>, <<Ord(2025, 1, 7), 0>>}

ColorTexts ==
    { <<P1, "AC225">>, <<P1, "Outage">>, <<P1, "Outage", "-", "cancel">>,
      <<"Shutdown", "outage">>, <<"Note">>, <<"AC225", "Run", "SRx">>,
      <<P1, "AC225", "MD1", "-", "cancel">> }

NextColor ==
    \/ ScriptRun(TRUE)
    \/ \E dkey \in ColorCells, raw_val \in ColorTexts :
          Commit(dkey, raw_val, TRUE)
    \/ \E item \in LegendChoices : AddLegend(item, TRUE)
    \/ \E index \in 1..MaxLegend : DelLegend(index, TRUE)

SpecColor == Init /\ [][NextColor]_vars


\* ------------------------------------------------------------------------
\* Failing writes: sessions in which mkdir or write_text raises OSError during
\* some handlers, with the holiday and closure buttons of the sidebar
\* ------------------------------------------------------------------------
\* the Remove / Add Back button of the U.S. holiday dated d, once the script
\* has reached it in world w
ToggleHolidayHandler(w, d, io_ok) ==
    LET name_part == HolidayTable[w.ss.current_year][d]
        dkey == date_key(YearOf(d), MonthOf(d), DayOf(d), 0)
    IN IF w.exc # "" THEN w
       ELSE IF InSeq(name_part, w.ss.suppressed_us_holidays)
       THEN _autosave_now(
                [w EXCEPT !.ss.suppressed_us_holidays =
                              SelectSeq(w.ss.suppressed_us_holidays,
                                        LAMBDA n : n # name_part)],
                io_ok)
       ELSE _autosave_now(
                [w EXCEPT !.ss.suppressed_us_holidays =
                              Append(w.ss.suppressed_us_holidays, name_part),
                          !.ss.entries = Del(w.ss.entries, {dkey}),
                          !.ss.widgets = Del(w.ss.widgets, {dkey})],
                io_ok)

ToggleHoliday(d, io_ok) ==
    /\ pc = "idle"
    /\ Edit /\ Fault(io_ok)
    /\ DidOp("toggle_holiday")
    /\ \E w1 \in {ScriptHead(Here, io_ok)} :
          /\ d \in DOMAIN HolidayTable[w1.ss.current_year]
          /\ Finish(ToggleHolidayHandler(w1, d, io_ok), "run")

\* the delete button of the custom closure at idx
DelClosureHandler(w, idx, io_ok) ==
    IF w.exc # "" THEN w
    ELSE _autosave_now(
             [w EXCEPT !.ss.custom_closures =
                           SubSeq(w.ss.custom_closures, 1, idx - 1)
                           \o SubSeq(w.ss.custom_closures, idx + 1, Len(w.ss.custom_closures))],
             io_ok)

DelClosure(idx, io_ok) ==
    /\ pc = "idle"
    /\ Edit /\ Fault(io_ok)
    /\ DidOp("del_closure")
    /\ \E w1 \in {ScriptHead(Here, io_ok)} :
          /\ idx \in 1..Len(w1.ss.custom_closures)
          /\ Finish(DelClosureHandler(w1, idx, io_ok), "run")

\* the cell, the texts and the holiday of these sessions
FaultCells == {<<Ord(2025, 1, 6), 0>>}

FaultTexts == { <<P1, "AC225">>, <<"Note">>, <<"Delete">> }

FaultHolidays == {Ord(2025, 1, 20)}

NextFault ==
    \E io_ok \in BOOLEAN :
        \/ ScriptRun(io_ok)
        \/ \E dkey \in FaultCells, raw_val \in FaultTexts : Commit(dkey, raw_val, io_ok)
        \/ NavPrev(io_ok)
        \/ NavNext(io_ok)
        \/ \E w_idx \in 0..5 : AddRow(w_idx, io_ok)
        \/ \E w_idx \in 0..5 : RemoveRow(w_idx, io_ok)
        \/ \E c \in ClosureChoices : AddClosure(c, io_ok)
        \/ \E idx \in 1..Cardinality(ClosureChoices) : DelClosure(idx, io_ok)
        \/ \E d \in FaultHolidays : ToggleHoliday(d, io_ok)
        \/ SaveNow(io_ok)

SpecFault == Init /\ [][NextFault]_vars


\* ------------------------------------------------------------------------
\* A file of the first version whose text ends in "cancelled": the first
\* version stores whatever was typed and knows no cancellation
\* ------------------------------------------------------------------------
LegacyCancelledFile ==
    [ keys |-> {"meta", "entries"},
      meta |-> [year |-> 2025, month |-> 1],
      entries |-> (<<Ord(2025, 1, 6), 0>> :> StrEntry(<<P1, "AC225", "cancelled">>)),
      week_action_rows |-> EmptyDict,
      custom_legend_entries |-> << >>,
      suppressed_us_holidays |-> << >> ]

\* a file of the first version with two notes on the January grid, one of them
\* ending in "cancelled", and a note in March, off the January grid
LegacyNotesFile ==
    [ keys |-> {"meta", "entries"},
      meta |-> [year |-> 2025, month |-> 1],
      entries |-> (<<Ord(2025, 1, 7), 0>> :> StrEntry(<<"Note", "cancelled">>)
                   @@ <<Ord(2025, 3, 3), 0>> :> StrEntry(<<"Note", SP>>)),
      week_action_rows |-> EmptyDict,
      custom_legend_entries |-> << >>,
      suppressed_us_holidays |-> << >> ]

InitLegacy ==
    /\ ss = SessionInit
    /\ disk \in {FileOf(LegacyCancelledFile), FileOf(LegacyNotesFile)}
    /\ pc = "run"
    /\ edits = 0
    /\ faults = 0
    /\ act = [op |-> "start", dkey |-> << >>, raw |-> << >>, old |-> << >>, stale |-> FALSE]
    /\ uncaught = ""

NextLegacy ==
    \/ ScriptRun(TRUE)
    \/ \E dkey \in LoadCells, raw_val \in LoadTexts : Commit(dkey, raw_val, TRUE)
    \/ NavPrev(TRUE)
    \/ NavNext(TRUE)
    \/ SaveNow(TRUE)
    \/ Reload(TRUE)
    \/ Restart

SpecLegacy == InitLegacy /\ [][NextLegacy]_vars


\* ------------------------------------------------------------------------
\* Directories: sessions in which the user enters another directory in the
\* field below the grid; the working file is from then on the file of that
\* directory
\* ------------------------------------------------------------------------
\* the time stamp of a session file at the start, and the time stamps of the
\* file in the other directory: one before it, one after it
DirClock == 2

DirMtimes == {DirClock - 1, DirClock + 1}

\* the schedule files that the other directory may hold
DirFiles == {StructuredFile, MixedFile}

\* the working file after save_latest_dir(entered_dir): the file of that
\* directory, last modified at mtime
FileInDir(data, mtime, now) ==
    [state |-> "valid", data |-> data, mtime |-> mtime,
     now |-> IF mtime > now THEN mtime ELSE now]

\* the code under "if str(entered_dir) and str(entered_dir) != prefill_dir":
\* the new path is kept, the file found there is read into the three
\* __pending_*__ keys, and the script reruns
SwitchDirHandler(w, d) ==
    IF w.exc # "" THEN w
    ELSE IF LoadOk(d)
    THEN [w EXCEPT !.disk = d,
                   !.ss.pending =
                       << [entries |-> d.data.entries,
                           meta |-> IF "meta" \in d.data.keys THEN d.data.meta ELSE EmptyDict,
                           week_action_rows |->
                               IF "week_action_rows" \in d.data.keys
                               THEN d.data.week_action_rows ELSE EmptyDict] >>]
    ELSE [w EXCEPT !.disk = d]

SwitchDirectory(d, io_ok) ==
    /\ pc = "idle"
    /\ Edit /\ Fault(io_ok)
    /\ DidOp("switch")
    /\ Finish(SwitchDirHandler(ScriptToFoot(Here, io_ok), d), "run")

DirCells == {<<Ord(2025, 1, 7), 0>>}

DirTexts == { <<"Note">>, <<P1, "AC225">> }

InitDir ==
    /\ ss = SessionInit
    /\ disk \in {[NoFile EXCEPT !.now = DirClock],
                 [FileOf(StructuredFile) EXCEPT !.mtime = DirClock, !.now = DirClock]}
    /\ pc = "run"
    /\ edits = 0
    /\ faults = 0
    /\ act = [op |-> "start", dkey |-> << >>, raw |-> << >>, old |-> << >>, stale |-> FALSE]
    /\ uncaught = ""

NextDir ==
    \/ ScriptRun(TRUE)
    \/ \E dkey \in DirCells, raw_val \in DirTexts : Commit(dkey, raw_val, TRUE)
    \/ SaveNow(TRUE)
    \/ \E data \in DirFiles, mtime \in DirMtimes :
          SwitchDirectory(FileInDir(data, mtime, disk.now), TRUE)
    \/ SwitchDirectory([NoFile EXCEPT !.now = disk.now], TRUE)

SpecDir == InitDir /\ [][NextDir]_vars


\* ------------------------------------------------------------------------
\* Holidays: sessions in which the user types into the cell of a federal
\* holiday and removes the holiday, or adds it back, in the sidebar
\* ------------------------------------------------------------------------
HolidayCells == {<<Ord(2025, 1, 20), 0>>, <<Ord(2025, 1, 6), 0>>}

HolidayTexts == { <<"Note">>, <<P1, "AC225">> }

NextHoliday ==
    \/ ScriptRun(TRUE)
    \/ \E dkey \in HolidayCells, raw_val \in HolidayTexts : Commit(dkey, raw_val, TRUE)
    \/ \E d \in FaultHolidays : ToggleHoliday(d, TRUE)

SpecHoliday == Init /\ [][NextHoliday]_vars


\* ------------------------------------------------------------------------
\* Reloads and navigation: sessions on a file that another session of the
\* dashboard replaces, with the month buttons
\* ------------------------------------------------------------------------
\* the file that another session of the dashboard saves after it rendered
\* February and January 2025 on an empty store: weekends and holidays, no more
PeerFile ==
    _save_payload(AutoFillAndRender(
        [AutoFillAndRender([SessionInit EXCEPT !.current_month = 2])
            EXCEPT !.current_month = 1]))

\* the same file with a note in the first row of 2025-01-07
NotedFile ==
    [PeerFile EXCEPT !.entries = (<<Ord(2025, 1, 7), 0>> :> DictEntry(<<"Note">>, FALSE)) @@ @]

InitStale ==
    /\ ss = SessionInit
    /\ disk = FileOf(NotedFile)
    /\ pc = "run"
    /\ edits = 0
    /\ faults = 0
    /\ act = [op |-> "start", dkey |-> << >>, raw |-> << >>, old |-> << >>, stale |-> FALSE]
    /\ uncaught = ""

StaleCells == {<<Ord(2025, 1, 6), 0>>, <<Ord(2025, 1, 7), 0>>}

StaleTexts == { <<"Note">>, <<"Shutdown", "outage">> }

NextStale ==
    \/ ScriptRun(TRUE)
    \/ \E dkey \in StaleCells, raw_val \in StaleTexts : Commit(dkey, raw_val, TRUE)
    \/ NavPrev(TRUE)
    \/ NavNext(TRUE)
    \/ Reload(TRUE)
    \/ ExternalWrite(PeerFile)

SpecStale == InitStale /\ [][NextStale]_vars


\* ------------------------------------------------------------------------
\* Properties
\* ------------------------------------------------------------------------
\* readings of the store used by the properties
StartsWithCode(t, code) == t # << >> /\ Head(t) = code

CarriesCode(t, code) == HasWord(t, {code})

HasBooster(t) == HasWord(Lower(t), ACWords)

\* an entry dated d whose text carries the code and ends with MDk
MDkOn(s, code, d, k) ==
    \E key \in DOMAIN s.entries :
        /\ key[1] = d
        /\ CarriesCode(s.entries[key].text, code)
        /\ s.entries[key].text[Len(s.entries[key].text)] = MDTag(k)

\* the step is a single-cell commit that stored the typed text
CommitStored == 
    /\ pc = "idle" /\ act'.op = "commit"
    /\ Strip(act'.raw) # << >>
    /\ Lower(Strip(act'.raw)) # <<"delete">>
    /\ act'.dkey \in DOMAIN ss'.entries

\* the text of patient `code`, with the booster marker, not a maintenance dose,
\* not cancelled
ActiveInitial(e, code) ==
    /\ ~e.cancelled
    /\ StartsWithCode(e.text, code)
    /\ ~_is_maintenance(e.text)
    /\ HasBooster(e.text)

\* C1 (maintenance cascade): a single-cell commit that stores, in a cell dated
\* D, a non-cancelled text that starts with a patient code, is not a
\* maintenance dose and contains the booster marker, while no MD1 of that code
\* is dated D + 6 weeks, leaves for each k in 1..3 an entry dated D + 6k weeks
\* whose text carries the code and ends with MDk.
C1_Step ==
    \A code \in PatientCodes :
        (/\ CommitStored
         /\ ActiveInitial(ss'.entries[act'.dkey], code)
         /\ ~MDkOn(ss, code, act'.dkey[1] + 7 * 6, 1))
        => \A k \in 1..3 : MDkOn(ss', code, act'.dkey[1] + 7 * 6 * k, k)

C1_MaintenanceCascade == [][C1_Step]_vars

\* the first commit of a behaviour has stored an initial dose and the three
\* maintenance doses stand 6, 12 and 18 weeks later
C1_Witness ==
    /\ act.op = "commit" /\ edits = 1 /\ pc = "run"
    /\ act.dkey = <<Ord(2025, 1, 6), 0>>
    /\ act.dkey \in DOMAIN ss.entries
    /\ ActiveInitial(ss.entries[act.dkey], P1)
    /\ MDkOn(ss, P1, Ord(2025, 2, 17), 1)
    /\ MDkOn(ss, P1, Ord(2025, 3, 31), 2)
    /\ MDkOn(ss, P1, Ord(2025, 5, 12), 3)

\* the keys of the maintenance-dose entries of a patient code
MDKeys(s, code) ==
    {key \in DOMAIN s.entries :
        CarriesCode(s.entries[key].text, code) /\ _is_maintenance(s.entries[key].text)}

\* the cell holds an initial dose of the code: its text starts with the code
\* and is not a maintenance dose
InitialDoseAt(s, dkey, code) ==
    /\ dkey \in DOMAIN s.entries
    /\ StartsWithCode(s.entries[dkey].text, code)
    /\ ~_is_maintenance(s.entries[dkey].text)

\* C2 (cascade idempotence): a single-cell commit that stores an initial-dose
\* text of the same patient code into an initial-dose cell dated D, while an
\* MD1 of that code is dated D + 6 weeks, creates no entry and leaves the set
\* of that patient's maintenance-dose entries as it was.
C2_Step ==
    \A code \in PatientCodes :
        (/\ CommitStored
         /\ InitialDoseAt(ss, act'.dkey, code)
         /\ InitialDoseAt(ss', act'.dkey, code)
         /\ MDkOn(ss, code, act'.dkey[1] + 7 * 6, 1))
        => /\ DOMAIN ss'.entries = DOMAIN ss.entries
           /\ MDKeys(ss', code) = MDKeys(ss, code)

C2_CascadeIdempotence == [][C2_Step]_vars

\* the step commits a text ending with cancel/cancelled over a live initial
\* dose of the code that has maintenance doses in the store
CancelOver(code) ==
    /\ CommitStored
    /\ EndsWithCancel(Strip(act'.raw))
    /\ InitialDoseAt(ss, act'.dkey, code)
    /\ ~ss.entries[act'.dkey].cancelled
    /\ MDKeys(ss, code) # {}

\* the committed cell and every maintenance dose the code had are cancelled,
\* none of these is gone and each keeps its text
CancelledThrough(code) ==
    /\ ss'.entries[act'.dkey].cancelled
    /\ \A k \in MDKeys(ss, code) :
          /\ k \in DOMAIN ss'.entries
          /\ ss'.entries[k].cancelled
          /\ ss'.entries[k].text = ss.entries[k].text

\* the typed text, without its cancel suffix, names no other patient
NamesNoOther(code) ==
    _extract_patient_code(StripCancel(Strip(act'.raw))) \in {NoCode, code}

\* C3 as stated (cancellation propagation): a commit of a text ending with
\* cancel/cancelled over a not yet cancelled initial dose whose maintenance
\* doses are scheduled sets cancelled on that entry and on every maintenance
\* dose of that dose's patient code, deleting none and keeping each text.
C3_AsStated == [][\A code \in PatientCodes : CancelOver(code) => CancelledThrough(code)]_vars

\* C3 (cancellation propagation, amended): the same, for a typed text that
\* does not begin with the code of another patient: the cancelled flag is
\* set on the committed entry and on every maintenance dose of the code of
\* the initial dose, none is deleted and each keeps its text.
C3_CancellationPropagation ==
    [][\A code \in PatientCodes :
          (CancelOver(code) /\ NamesNoOther(code)) => CancelledThrough(code)]_vars

\* the second commit of a behaviour typed the cancel text over the initial
\* dose stored by the first, and the three maintenance doses are cancelled
C3_Witness ==
    /\ act.op = "commit" /\ edits = 2 /\ pc = "run"
    /\ act.raw = <<P1, "AC225", "-", "cancel">>
    /\ act.dkey \in DOMAIN ss.entries
    /\ ss.entries[act.dkey].cancelled
    /\ StartsWithCode(ss.entries[act.dkey].text, P1)
    /\ MDkOn(ss, P1, act.dkey[1] + 7 * 6, 1)
    /\ Cardinality(MDKeys(ss, P1)) = 3
    /\ \A k \in MDKeys(ss, P1) : ss.entries[k].cancelled

\* the step commits the keyword delete over an initial dose of the code
DeleteOver(code) ==
    /\ pc = "idle" /\ act'.op = "commit"
    /\ Lower(Strip(act'.raw)) = <<"delete">>
    /\ InitialDoseAt(ss, act'.dkey, code)

\* C4 (deletion cascade): a commit of the keyword delete, in any case, over
\* an initial-dose cell removes the entry of that cell and every maintenance
\* dose entry of its patient code, wherever it is in the store, and leaves
\* every other entry (of another patient code, or of no patient) as it was.
C4_Step ==
    \A code \in PatientCodes :
        DeleteOver(code) =>
            /\ act'.dkey \notin DOMAIN ss'.entries
            /\ \A k \in MDKeys(ss, code) : k \notin DOMAIN ss'.entries
            /\ \A k \in DOMAIN ss.entries :
                  (k # act'.dkey /\ ~CarriesCode(ss.entries[k].text, code))
                  => (k \in DOMAIN ss'.entries /\ ss'.entries[k] = ss.entries[k])

C4_DeletionCascade == [][C4_Step]_vars

\* delete was committed over the initial dose of the first patient while the
\* second patient's cycle stood: the first patient's entries are gone, the
\* second patient's three maintenance doses remain
C4_Witness ==
    /\ act.op = "commit" /\ pc = "run"
    /\ Lower(Strip(act.raw)) = <<"delete">>
    /\ StartsWithCode(act.old, P1) /\ ~_is_maintenance(act.old)
    /\ act.dkey \notin DOMAIN ss.entries
    /\ \A k \in DOMAIN ss.entries : ~CarriesCode(ss.entries[k].text, P1)
    /\ Cardinality(MDKeys(ss, P2)) = 3

\* C5 (row-bound invariant): in every reachable state every entry keyed
\* (date, rowIndex) has rowIndex below the row count stored under the week key
\* of the date's own year and month (1 when no count is stored).
C5_RowBound ==
    \A key \in DOMAIN ss.entries : key[2] < RowsOf(ss, OwnWeekKey(key[1]))

\* the part of C5 about auto-scheduling: every maintenance dose written by the
\* scheduler (a bare string) lies below the row count of its date's week
ScheduledWithinRows ==
    \A key \in DOMAIN ss.entries :
        (ss.entries[key].kind = "str" /\ _is_maintenance(ss.entries[key].text))
        => key[2] < RowsOf(ss, OwnWeekKey(key[1]))

\* the store after _autosave_now() and then _load_from_disk_into_state()
RoundTrip == _load_from_disk_into_state(_autosave_now(Here, TRUE)).ss

\* week row counts, legend entries and suppressed holiday names come back
RestOfStoreKept(t) ==
    /\ t.week_action_rows = ss.week_action_rows
    /\ t.custom_legend_entries = ss.custom_legend_entries
    /\ t.suppressed_us_holidays = ss.suppressed_us_holidays

\* C6 as stated (round-trip persistence): a save of the store followed by a
\* load gives every entry as a structured record with the text and cancelled
\* value it had, a bare string s as {text: s, cancelled: false}, and the same
\* week row counts, legend entries and suppressed holiday names.
C6_AsStated ==
    /\ DOMAIN RoundTrip.entries = DOMAIN ss.entries
    /\ \A k \in DOMAIN ss.entries :
          RoundTrip.entries[k] = DictEntry(ss.entries[k].text, ss.entries[k].cancelled)
    /\ RestOfStoreKept(RoundTrip)

\* C6 (round-trip persistence, amended): the same, a bare string s coming
\* back as {text: s without its leading and trailing whitespace, cancelled:
\* false}; a structured entry comes back with its text and cancelled value.
C6_RoundTrip ==
    /\ DOMAIN RoundTrip.entries = DOMAIN ss.entries
    /\ \A k \in DOMAIN ss.entries :
          RoundTrip.entries[k] =
              IF ss.entries[k].kind = "str"
              THEN DictEntry(Strip(ss.entries[k].text), FALSE)
              ELSE DictEntry(ss.entries[k].text, ss.entries[k].cancelled)
    /\ RestOfStoreKept(RoundTrip)

\* the reload button has loaded a file that a save of this program wrote with
\* a structured entry and a whitespace-padded bare string in it, and the
\* store holds the upgraded entries
C6_Witness ==
    /\ act.op = "reload" /\ pc = "run"
    /\ disk.state = "valid" /\ "week_action_rows" \in disk.data.keys
    /\ \E k \in DOMAIN disk.data.entries :
          /\ disk.data.entries[k].kind = "str"
          /\ Strip(disk.data.entries[k].text) # disk.data.entries[k].text
    /\ \E k \in DOMAIN disk.data.entries : disk.data.entries[k].kind = "dict"
    /\ DOMAIN ss.entries = DOMAIN disk.data.entries
    /\ \A k \in DOMAIN ss.entries :
          /\ ss.entries[k].kind = "dict"
          /\ ss.entries[k].text = Strip(disk.data.entries[k].text)
          /\ ss.entries[k].cancelled = disk.data.entries[k].cancelled

\* the file holds an entry that is a bare string
HasBareStrings(d) ==
    LoadOk(d) /\ \E k \in DOMAIN d.data.entries : d.data.entries[k].kind = "str"

\* the step is the first script run of a session and reads the file
BootLoads == act'.op = "run" /\ ~ss.boot_loaded /\ LoadOk(disk)

\* the step runs the script of a session whose watchdog finds the file newer
WatchdogLoads ==
    /\ act'.op \in {"run", "save", "reload"}
    /\ ss.boot_loaded
    /\ ss.last_meta = <<ss.current_year, ss.current_month>>
    /\ ss.disk_mtime # NoMtime /\ _stat_mtime(disk) > ss.disk_mtime
    /\ LoadOk(disk)

\* the step is a press of the reload button that reads the file
ReloadLoads == act'.op = "reload" /\ LoadOk(disk')

\* every entry of the store is a structured record and no load error is noted
Upgraded(s) ==
    /\ \A k \in DOMAIN s.entries : s.entries[k].kind = "dict"
    /\ s.boot_error = ""

\* C7 (upgrade on every load path): after the startup load, a watchdog reload
\* or a manual reload of a file that holds bare-string entry values, every
\* entry of the in-memory store is a structured record and the load has
\* noted no error.
C7_UpgradeOnLoad ==
    [][((BootLoads \/ WatchdogLoads \/ ReloadLoads) /\ HasBareStrings(disk'))
          => Upgraded(ss')]_vars

\* the same for the watchdog reload and the manual reload alone
UpgradeOnReload ==
    [][((WatchdogLoads \/ ReloadLoads) /\ HasBareStrings(disk')
           /\ ss.boot_error = "")
          => Upgraded(ss')]_vars

\* a watchdog reload has upgraded the bare strings of a file written by
\* another program
WatchdogUpgraded ==
    /\ act.op = "run" /\ edits = 0 /\ disk.now > 1
    /\ HasBareStrings(disk)
    /\ ss.disk_mtime = disk.mtime
    /\ \A k \in DOMAIN disk.data.entries :
          k \in DOMAIN ss.entries /\ ss.entries[k] = NormalizeEntry(disk.data.entries[k])
    /\ Upgraded(ss)

\* the row counts after _ensure_rows_for_current_month on the present store
Ensured == _ensure_rows_for_current_month(ss).week_action_rows

\* the entries dated in the week `week` of the visible month
EntriesOfWeek(week) ==
    {x \in DOMAIN ss.entries :
        InCurrentMonth(ss, x[1]) /\ \E i \in 1..7 : week[i] = x[1]}

\* rows, the counts after the pass, lower no stored count and give every
\* week of weeks at least one row and a row for each of its entries
GrownOver(rows, weeks) ==
    /\ \A k \in DOMAIN ss.week_action_rows :
          k \in DOMAIN rows /\ rows[k] >= ss.week_action_rows[k]
    /\ \A w_idx \in 0..(Len(weeks) - 1) :
          /\ WeekKey(ss, w_idx) \in DOMAIN rows
          /\ rows[WeekKey(ss, w_idx)] >= 1
          /\ \A x \in EntriesOfWeek(weeks[w_idx + 1]) : rows[WeekKey(ss, w_idx)] >= x[2] + 1

\* C8 (row growth monotonicity): _ensure_rows_for_current_month lowers no
\* stored row count, and leaves every week of the visible month with a count
\* of at least 1 and above the row index of every entry dated in that week of
\* that month.
C8_RowGrowth == GrownOver(Ensured, VisibleWeeks(ss))

\* February 2025 is about to be rendered with a scheduled dose in row 1 of
\* 17 February while the week has one row: the pass raises the week to two
C8_Witness ==
    /\ pc = "run"
    /\ ss.current_year = 2025 /\ ss.current_month = 2
    /\ <<Ord(2025, 2, 17), 1>> \in DOMAIN ss.entries
    /\ RowsOf(ss, OwnWeekKey(Ord(2025, 2, 17))) = 1
    /\ Ensured[OwnWeekKey(Ord(2025, 2, 17))] = 2

\* the store is left as it is by a run of the auto-fill passes over store s
SameEntriesAfterFill(s) == AutoFillAndRender(s).entries = s.entries

\* C9 (idempotent auto-fill): the holiday, closure and weekend auto-fill of
\* the visible month, run a second time with no edit in between, leaves the
\* entry store exactly as the first run left it.
C9_IdempotentAutoFill == SameEntriesAfterFill(AutoFillAndRender(ss))

\* a script run has filled the weekends and the holiday of February 2025, and
\* a further run of the passes leaves the store as it is
C9_Witness ==
    /\ act.op = "run" /\ pc = "idle"
    /\ ss.current_year = 2025 /\ ss.current_month = 2
    /\ <<Ord(2025, 2, 15), 0>> \in DOMAIN ss.entries
    /\ ss.entries[<<Ord(2025, 2, 15), 0>>].text = <<"Weekend">>
    /\ <<Ord(2025, 2, 17), 0>> \in DOMAIN ss.entries
    /\ ss.entries[<<Ord(2025, 2, 17), 0>>].text = <<"Washington's Birthday">>
    /\ SameEntriesAfterFill(ss)

\* the entry holds text that is neither blank nor the weekend placeholder
RealContent(e) == Strip(e.text) # << >> /\ Lower(Strip(e.text)) # <<"weekend">>

\* every entry of real content has its text and cancelled flag in `filled`
KeptIn(filled) ==
    \A k \in DOMAIN ss.entries :
        RealContent(ss.entries[k])
        => /\ k \in DOMAIN filled
           /\ filled[k].text = ss.entries[k].text
           /\ filled[k].cancelled = ss.entries[k].cancelled

\* C10 (non-destructive auto-fill): the holiday, closure and weekend auto-fill
\* changes neither the text nor the cancelled flag of a cell whose text is
\* non-empty and not the weekend placeholder, on any date, weekends and
\* holidays included.
C10_NonDestructiveAutoFill == KeptIn(AutoFillAndRender(ss).entries)

\* February 2025 has been rendered: the dose on the holiday of 17 February
\* and the text typed on Saturday 1 February stand as they were written
C10_Witness ==
    /\ act.op = "run" /\ pc = "idle"
    /\ ss.current_year = 2025 /\ ss.current_month = 2
    /\ <<Ord(2025, 2, 17), 0>> \in DOMAIN ss.entries
    /\ ss.entries[<<Ord(2025, 2, 17), 0>>].text = <<P1, "AC225", "MD1">>
    /\ <<Ord(2025, 2, 1), 0>> \in DOMAIN ss.entries
    /\ ss.entries[<<Ord(2025, 2, 1), 0>>].text = <<"Note">>
    /\ KeptIn(AutoFillAndRender(ss).entries)


\* the built-in patterns, read off the rule list one by one
MatchesBuiltIn(lower, s) ==
    \/ lower = <<"weekend">>
    \/ IsHolidayName(lower, s)
    \/ HasWord(lower, {"shutdown", "nmctg", "perceptive"})
    \/ \E a \in {"in111", "ac225"}, b \in {"srx", "evg"} : RunOf(lower, a, b)
    \/ Head(lower) \in {"cardinal", "tpi", "niowave"} \cup PlaceholderCodes \cup PatientCodes
    \/ Head(lower) = "pv" /\ HasWord(lower, {"srx"})
    \/ lower \in {<<"srx", "maintenance">>, <<"bwxt", "order">>}

BuiltInColors ==
    { COLOR_WEEKEND, COLOR_US_HOLIDAY, COLOR_SHUTDOWN, COLOR_IN111_RUN_SRX,
      COLOR_AC225_RUN_SRX, COLOR_IN111_RUN_EVG, COLOR_AC225_RUN_EVG,
      COLOR_CARDINAL_TPI_NIOWAVE, COLOR_NMCTG, COLOR_PLACEHOLDER, COLOR_MD,
      COLOR_CONFIRMED, COLOR_PV, COLOR_SRX, COLOR_PERCEPTIVE, COLOR_BWXT }

\* the legend items whose label is in lower
LegendHits(legend, lower) == {i \in 1..Len(legend) : LegendHit(legend[i], lower)}

\* colour c is the one the priority order gives the structured entry e
ColourByPriority(e, c, legend, s) ==
    IF Strip(e.text) = << >> THEN c = "white"
    ELSE IF e.cancelled THEN c = COLOR_CANCELLED
    ELSE IF LegendHits(legend, Lower(Strip(e.text))) # {}
         THEN \E i \in LegendHits(legend, Lower(Strip(e.text))) :
                 /\ c = legend[i].color
                 /\ \A j \in LegendHits(legend, Lower(Strip(e.text))) : i <= j
    ELSE IF MatchesBuiltIn(Lower(Strip(e.text)), s) THEN c \in BuiltInColors
    ELSE c = COLOR_FALLBACK

\* C11: get_color gives every structured entry the colour of the first rule
\* that matches in the order cancelled with text, custom legend label as a
\* substring, built-in patterns, fallback; an uncancelled text that holds a
\* legend label and starts with a patient code gets the legend colour, and
\* an entry without text is white
C11_ClassifierPriority ==
    \A k \in DOMAIN ss.entries :
        ss.entries[k].kind = "dict" =>
            ColourByPriority(ss.entries[k], get_color(ss.entries[k], ss),
                             ss.custom_legend_entries, ss)

\* an uncancelled entry that starts with a patient code and holds the label
\* of a legend item is shown in the colour of that item
C11_Witness ==
    \E k \in DOMAIN ss.entries :
        /\ ss.entries[k].kind = "dict" /\ ~ss.entries[k].cancelled
        /\ StartsWithCode(ss.entries[k].text, P1)
        /\ LegendHits(ss.custom_legend_entries, Lower(Strip(ss.entries[k].text))) # {}
        /\ get_color(ss.entries[k], ss) \in {item.color : item \in LegendChoices}


\* C12: in every reachable state, every maintenance-dose entry (tagged MD1,
\* MD2 or MD3) of a patient code has an initial-dose entry of the same code in
\* the store whose text holds the booster marker
C12_MaintenanceHasInitialDose ==
    \A code \in PatientCodes :
        MDKeys(ss, code) # {} =>
            \E k \in DOMAIN ss.entries :
                InitialDoseAt(ss, k, code) /\ HasBooster(ss.entries[k].text)


\* the step is a navigation button, reached by the script without an
\* exception, whose batch commit meets a bare string under a widget key
NavOverBareString ==
    /\ pc = "idle" /\ act'.op \in {"prev", "next"}
    /\ ScriptHead(Here, faults' = faults).exc = ""
    /\ \E k \in DOMAIN ss.widgets \cap DOMAIN ss.entries : ss.entries[k].kind = "str"

\* the step is a single-cell commit, past the blank guard, whose writes fail
CommitWriteFails ==
    /\ pc = "idle" /\ act'.op = "commit"
    /\ faults' = faults + 1
    /\ Strip(act'.raw) # << >>

\* the store the same commit leaves when its writes succeed
EntriesOfCommit(s, dkey, raw_val) ==
    _commit_and_autosave(World([s EXCEPT !.widgets = Put(s.widgets, dkey, raw_val)], disk),
                         dkey, TRUE).ss.entries

\* the handler returned to Streamlit with the failure on record
CaughtAs(errors) ==
    /\ uncaught' = "" /\ pc' = "run"
    /\ ~ss'.autosave_ok /\ ss'.autosave_error \in errors

C13_Step ==
    /\ CommitWriteFails =>
          /\ CaughtAs({"OSError"})
          /\ disk' = disk
          /\ ss'.entries = EntriesOfCommit(ss, act'.dkey, act'.raw)
    /\ NavOverBareString =>
          /\ CaughtAs({"AttributeError", "OSError"})
          /\ <<ss'.current_year, ss'.current_month>> # <<ss.current_year, ss.current_month>>

\* C13: an exception raised inside a commit handler, single-cell or batch,
\* a failing save included, is caught at the boundary of the handler: the
\* handler returns normally (the script reruns, the month button still moves
\* the month), __autosave_ok__ is false, __autosave_error__ holds the text of
\* the error, a commit whose writes fail leaves the file as it was, and the
\* changes of the store made before the failure are kept
C13_CommitErrorBoundary == [][C13_Step]_vars

\* a failed single-cell commit that scheduled maintenance doses before its
\* save raised, and kept them
C13_Witness ==
    /\ act.op = "commit" /\ faults = 1 /\ pc = "run"
    /\ ~ss.autosave_ok /\ ss.autosave_error = "OSError"
    /\ act.dkey \in DOMAIN ss.entries
    /\ MDKeys(ss, P1) # {}
    /\ disk.state = "missing"

\* a navigation whose batch commit raised on a bare string and was caught
C13_BatchWitness ==
    /\ act.op \in {"prev", "next"} /\ pc = "run"
    /\ ~ss.autosave_ok /\ ss.autosave_error = "AttributeError"


\* C14: a save that fails, at whichever call site (commit, add row, remove
\* row, holiday button, closure add or remove, Save Now, save on month
\* change), is caught: the OSError does not leave the operation
C14_Step == faults' = faults + 1 => uncaught' # "OSError"

C14_SaveFailureCaught == [][C14_Step]_vars


\* the file is newer than the time stamp the session knows
FileIsNewer(w) ==
    /\ LoadOk(w.disk)
    /\ w.ss.disk_mtime # NoMtime
    /\ _stat_mtime(w.disk) > w.ss.disk_mtime

\* the part of a file under key, empty when the file has no such key
FilePart(data, key, part, empty) == IF key \in data.keys THEN part ELSE empty

\* the store of s is the content of the file, its entries in structured form
StoreIsFile(s, data) ==
    /\ s.entries = [k \in DOMAIN data.entries |-> NormalizeEntry(data.entries[k])]
    /\ s.week_action_rows = FilePart(data, "week_action_rows", data.week_action_rows, EmptyDict)
    /\ s.custom_legend_entries =
           FilePart(data, "custom_legend_entries", data.custom_legend_entries, << >>)
    /\ s.suppressed_us_holidays =
           FilePart(data, "suppressed_us_holidays", data.suppressed_us_holidays, << >>)
    /\ <<s.current_year, s.current_month>> = <<data.meta.year, data.meta.month>>

SameStore(s, t) ==
    /\ s.entries = t.entries
    /\ s.week_action_rows = t.week_action_rows
    /\ s.custom_legend_entries = t.custom_legend_entries
    /\ s.suppressed_us_holidays = t.suppressed_us_holidays
    /\ <<s.current_year, s.current_month>> = <<t.current_year, t.current_month>>

\* what the watchdog made of world w0
WatchdogReloaded(w0, w1) ==
    IF FileIsNewer(w0)
    THEN /\ StoreIsFile(w1.ss, w0.disk.data)
         /\ w1.ss.disk_mtime = _stat_mtime(w0.disk)
         /\ w1.ss.do_rerun
    ELSE SameStore(w1.ss, w0.ss)

\* C15: at the watchdog call of an interaction cycle (after the boot load and
\* the save on month change), a file newer than the last known time stamp
\* replaces the whole store (entries, week row counts, legend, suppressed
\* holidays, month and year), the new time stamp is recorded and the rerun
\* flag is set; a file that is not newer leaves the store as it is
C15_WatchdogReload ==
    \E w0 \in {MetaSave(BootLoad(Here), TRUE)} :
        w0.exc = "" => WatchdogReloaded(w0, _disk_watchdog(w0))


\* the same with the legend and the suppressed holidays replaced only when
\* the file has those keys: this is what the watchdog does
WatchdogReloadsKeysOfFile ==
    \E w0 \in {MetaSave(BootLoad(Here), TRUE)} :
        (w0.exc = "" /\ FileIsNewer(w0)) =>
            \E w1 \in {_disk_watchdog(w0)} :
                /\ StoreIsFile([w1.ss EXCEPT
                                   !.custom_legend_entries =
                                       FilePart(w0.disk.data, "custom_legend_entries", @, << >>),
                                   !.suppressed_us_holidays =
                                       FilePart(w0.disk.data, "suppressed_us_holidays", @, << >>)],
                               w0.disk.data)
                /\ w1.ss.custom_legend_entries =
                       FilePart(w0.disk.data, "custom_legend_entries",
                                w0.disk.data.custom_legend_entries, w0.ss.custom_legend_entries)
                /\ w1.ss.suppressed_us_holidays =
                       FilePart(w0.disk.data, "suppressed_us_holidays",
                                w0.disk.data.suppressed_us_holidays, w0.ss.suppressed_us_holidays)
                /\ w1.ss.disk_mtime = _stat_mtime(w0.disk)
                /\ w1.ss.do_rerun


\* the text is something to keep: not empty, not "weekend", not "placeholder"
Occupies(t) ==
    /\ Strip(t) # << >>
    /\ Lower(Strip(t)) \notin {<<"weekend">>, <<"placeholder">>}

\* the step is a commit, single-cell or batch, whose scheduler wrote its bare
\* string into slot k
ScheduledInto(k) ==
    /\ pc = "idle" /\ act'.op \in {"commit", "prev", "next"}
    /\ k # act'.dkey
    /\ k \in DOMAIN ss'.entries
    /\ ss'.entries[k].kind = "str"
    /\ _is_maintenance(ss'.entries[k].text)
    /\ (k \in DOMAIN ss.entries => ss.entries[k] # ss'.entries[k])

C16_Step ==
    \A k \in DOMAIN ss.entries : ScheduledInto(k) => ~Occupies(ss.entries[k].text)

\* C16: a generated maintenance dose is written only into a slot whose entry
\* is absent, empty or a placeholder ("weekend" / "placeholder"); no entry
\* with other text is replaced, also when the cycles of two patients land on
\* a date whose rows are all occupied and whose month was not viewed in between
C16_SchedulingKeepsContent == [][C16_Step]_vars


\* the step is a single-cell commit of empty text to a cell that holds text
BlankOver ==
    /\ pc = "idle" /\ act'.op = "commit"
    /\ Strip(act'.raw) = << >>
    /\ act'.dkey \in DOMAIN ss.entries
    /\ Strip(act'.old) # << >>

C17_Step ==
    BlankOver =>
        /\ act'.dkey \notin DOMAIN ss'.entries
        /\ \A code \in PatientCodes :
              InitialDoseAt(ss, act'.dkey, code) => MDKeys(ss', code) = {}

\* C17: committing empty text to a cell that holds an entry deletes the
\* entry; when the previous text starts with a patient code and is not a
\* maintenance dose, the maintenance doses of that code are deleted as well
C17_DeletionByEmptyText == [][C17_Step]_vars


\* empty text was committed over an initial dose: the blank guard put the old
\* text back into the widget; the dose and its maintenance doses are in the store
BlankGuardKeptDose ==
    /\ act.op = "commit" /\ Strip(act.raw) = << >>
    /\ StartsWithCode(act.old, P1)
    /\ InitialDoseAt(ss, act.dkey, P1)
    /\ ss.widgets[act.dkey] = act.old
    /\ MDKeys(ss, P1) # {}


\* the maintenance doses of a code that the step added to the store
NewDoses(code) == MDKeys(ss', code) \ MDKeys(ss, code)

\* the entries of the code that are cancelled after the step and that the
\* step stored or changed
CancelledBy(code) ==
    {k \in DOMAIN ss'.entries :
        /\ ss'.entries[k].cancelled
        /\ StartsWithCode(ss'.entries[k].text, code)
        /\ (k \in DOMAIN ss.entries => ss.entries[k] # ss'.entries[k])}

C18_Step ==
    \A code \in PatientCodes :
        (/\ pc = "idle" /\ act'.op \in {"commit", "prev", "next"}
         /\ CancelledBy(code) # {})
        => NewDoses(code) = {}

\* C18: neither the single-cell commit nor the batch commit of a navigation
\* creates maintenance doses for an entry that is cancelled after the commit,
\* a text committed with a cancel suffix in the same step included
C18_NoSchedulingForCancelled == [][C18_Step]_vars


C19_Step ==
    \A code \in PatientCodes :
        (/\ pc = "idle" /\ act'.op = "commit"
         /\ NewDoses(code) # {})
        => /\ act'.dkey \in DOMAIN ss'.entries
           /\ StartsWithCode(ss'.entries[act'.dkey].text, code)

\* C19: a single-cell commit creates maintenance doses of a patient code only
\* when the text it stores starts with that code; a text without a patient
\* code committed over a cell that held a patient-coded entry creates none
C19_SchedulingFromCommittedText == [][C19_Step]_vars


\* the step is a single-cell commit of a maintenance-dose text with a cancel
\* suffix
CancelOfMaintenance ==
    /\ pc = "idle" /\ act'.op = "commit"
    /\ EndsWithCancel(Strip(act'.raw))
    /\ _is_maintenance(StripCancel(Strip(act'.raw)))

C20_Step ==
    CancelOfMaintenance =>
        \A k \in DOMAIN ss.entries \ {act'.dkey} :
            /\ k \in DOMAIN ss'.entries
            /\ ss'.entries[k].text = ss.entries[k].text
            /\ ss'.entries[k].cancelled = ss.entries[k].cancelled

\* C20: committing a cancel suffix on a text that is itself a maintenance
\* dose sets cancelled on the committed entry only; the text and the
\* cancelled flag of every other entry stay as they are, whatever the cell
\* held before (nothing, other text, a maintenance dose)
C20_CancelOfMaintenanceIsLocal == [][C20_Step]_vars


\* a maintenance-dose text with a cancel suffix was typed into an empty cell,
\* and the scheduled maintenance doses of the code are cancelled with it
CancelFromEmptyCellSpread ==
    /\ act.op = "commit" /\ act.old = << >>
    /\ EndsWithCancel(Strip(act.raw)) /\ _is_maintenance(act.raw)
    /\ \E k \in MDKeys(ss, P1) \ {act.dkey} : ss.entries[k].cancelled
    /\ \E k \in DOMAIN ss.entries : ActiveInitial(ss.entries[k], P1)


\* the world in which the handler of a navigation button starts
NavStart == ScriptHead(Here, faults' = faults)

\* the widget keys other than the bare strings whose loop body has work to do
\* when the batch commit starts
PendingCells(w) ==
    {k \in DOMAIN w.ss.widgets :
        /\ Get(w.ss.entries, k, DefaultEntry).kind = "dict"
        /\ Acts(w, k, TRUE)}

\* cell k of the store s1 is what the loop body makes of it in world w
ProcessedIn(w, k, s1) ==
    \E w1 \in {BatchCell(w, k, TRUE)} :
        IF k \in DOMAIN w1.ss.entries
        THEN k \in DOMAIN s1.entries /\ s1.entries[k] = w1.ss.entries[k]
        ELSE k \notin DOMAIN s1.entries

C21_Step ==
    NavOverBareString =>
        /\ \A k \in PendingCells(NavStart) : ProcessedIn(NavStart, k, ss')
        /\ PendingCells(NavStart) # {} =>
              disk'.state = "valid" /\ disk'.data.entries = ss'.entries

\* C21: in the batch commit of a month navigation an exception raised while
\* one cell is processed is caught for that cell, which is skipped; every
\* other cell of the batch is still processed and the resulting store is saved
C21_BatchIsolatesCellErrors == [][C21_Step]_vars


\* the entries of store s in the seven days of a displayed week, at row
\* new_rows or below it in the grid
BeyondRows(s, week, new_rows) ==
    {k \in DOMAIN s.entries : k[2] >= new_rows /\ \E i \in 1..7 : week[i] = k[1]}

\* the remove-row step lowered the count of week w_idx from old_rows to new_rows
LoweredRight(w_idx, old_rows, new_rows) ==
    new_rows < old_rows =>
        /\ new_rows = old_rows - 1
        /\ new_rows >= 1
        /\ \A k \in BeyondRows(ss, VisibleWeeks(ss)[w_idx + 1], new_rows) :
              ~RealContent(ss.entries[k])
        /\ \A k \in BeyondRows(ss', VisibleWeeks(ss)[w_idx + 1], new_rows) :
              ~RealContent(ss'.entries[k])

C22_Step ==
    (pc = "idle" /\ act'.op = "remove_row") =>
        \A w_idx \in 0..(Len(VisibleWeeks(ss)) - 1) :
            LoweredRight(w_idx, RowsOf(ss, WeekKey(ss, w_idx)), RowsOf(ss', WeekKey(ss, w_idx)))

\* C22: the remove-row button lowers the row count of a week by one only
\* when the count is above 1 and the last row is empty (no text or "Weekend")
\* on all seven days of the displayed week, the spillover days of the
\* adjacent month included; no entry with real content is removed or left at
\* a row at or beyond the new count, and the count stays at least 1
C22_RowRemovalGuard == [][C22_Step]_vars


\* the step is a single-cell commit, past the blank guard, that ended without
\* an error, made while the file was newer than the time stamp of the session
CommitOverNewerFile ==
    /\ pc = "idle" /\ act'.op = "commit"
    /\ Strip(act'.raw) # << >>
    /\ FileIsNewer(Here)
    /\ ss'.autosave_ok /\ uncaught' = ""

C23_Step ==
    CommitOverNewerFile =>
        /\ disk'.state = "valid"
        /\ disk'.data = _save_payload(ss')
        /\ ss'.disk_mtime = _stat_mtime(disk')
        /\ _disk_watchdog(World(ss', disk')) = World(ss', disk')

\* C23: a commit made after another program changed the file and before the
\* next watchdog poll overwrites the file with the store of this session,
\* whatever the file held; the recorded time stamp is that of the own write,
\* so the following watchdog poll reloads nothing
C23_LastWriterWins == [][C23_Step]_vars

\* a commit that saved over a file another program had written since the
\* last load or save of this session
C23_Witness ==
    /\ act.op = "commit" /\ pc = "run"
    /\ act.stale
    /\ Strip(act.raw) # << >>
    /\ disk.state = "valid" /\ disk.data = _save_payload(ss)
    /\ ss.disk_mtime = _stat_mtime(disk)


\* the file is missing, is not JSON, or is JSON without the key "entries"
NothingToLoad(d) == d.state # "valid" \/ "entries" \notin d.data.keys

C24_Step ==
    /\ NothingToLoad(disk') =>
          _load_from_disk_into_state(World(ss', disk')) = World(ss', disk')
    /\ (pc = "idle" /\ act'.op = "reload" /\ NothingToLoad(disk)) =>
          /\ SameStore(ss', ScriptToFoot(Here, TRUE).ss)
          /\ ss'.disk_mtime = ScriptToFoot(Here, TRUE).ss.disk_mtime
          /\ ~ss'.do_rerun

\* C24: when the file is missing, is not parseable JSON or is JSON without
\* the key "entries", the load reports no saved data and leaves the entries,
\* the week row counts, the legend, the suppressed holidays, the month and
\* year and the last known time stamp as they are; the reload button then
\* changes nothing after the script that led to it
C24_FailedLoadChangesNothing == [][C24_Step]_vars

\* the reload button was pressed on a JSON file without "entries" that is
\* newer than the session's time stamp, in a session with entries to lose
C24_Witness ==
    /\ act.op = "reload" /\ pc = "idle"
    /\ disk.state = "valid" /\ "entries" \notin disk.data.keys
    /\ ss.disk_mtime # NoMtime /\ disk.mtime > ss.disk_mtime
    /\ \E k \in DOMAIN ss.entries : RealContent(ss.entries[k])
    /\ ss.current_month = 1


\* the file holds the entries and the week row counts of the store
FileHoldsStore(s, d) ==
    /\ d.state = "valid"
    /\ d.data.entries = s.entries
    /\ d.data.week_action_rows = s.week_action_rows

\* the step is a commit handler that changed the entries and returned with
\* no error on record
CommitChangedStore ==
    /\ pc = "idle" /\ uncaught' = ""
    /\ ss'.autosave_ok /\ ss'.autosave_error = ""
    /\ \/ act'.op = "commit" /\ ss'.entries # ss.entries
       \/ /\ act'.op \in {"prev", "next"}
          /\ NavStart.exc = ""
          /\ ss'.entries # NavStart.ss.entries

C25_Step == CommitChangedStore => FileHoldsStore(ss', disk')

\* C25: whenever a commit handler, single-cell or batch, returns without an
\* error after it changed the store, the entries and the week row counts in
\* the file equal those in memory at that moment, generated maintenance doses
\* and propagated cancellations included
C25_DiskEqualsMemoryAfterCommit == [][C25_Step]_vars

\* a navigation whose batch commit changed the cancelled dose of a file of
\* the first version, scheduled from it and saved the store
C25_Witness ==
    /\ act.op \in {"prev", "next"} /\ pc = "run"
    /\ ss.autosave_ok
    /\ <<Ord(2025, 1, 6), 0>> \in DOMAIN ss.entries
    /\ ss.entries[<<Ord(2025, 1, 6), 0>>].cancelled
    /\ MDKeys(ss, P1) # {}
    /\ FileHoldsStore(ss, disk)

\* a single-cell commit that stored a dose, scheduled from it and saved
C25_SingleWitness ==
    /\ act.op = "commit" /\ pc = "run"
    /\ ss.autosave_ok
    /\ StartsWithCode(act.raw, P1)
    /\ MDKeys(ss, P1) # {}
    /\ FileHoldsStore(ss, disk)


\* texts as a user may type them: with and without a patient code, with the
\* words "initial dose" in either case, a maintenance dose, blanks around
SuffixTexts ==
    { << >>, <<SP>>, <<"Note">>, <<"Note", "Initial", "Dose">>,
      <<P1, "AC225">>, <<SP, P1, "AC225", SP>>, <<P1>>,
      <<P1, "AC225", "initial", "dose">>, <<P1, "Initial", "Dose", "AC225">>,
      <<P1, "AC225", "Initial">>, <<P1, "AC225", "MD2">>,
      <<P1, "AC225", "MD1", "Initial", "Dose">>, <<"AC225", P1>> }

\* the texts typed and the texts held by the store in this state
TextsAtHand ==
    SuffixTexts \cup {act.raw, StripCancel(Strip(act.raw))}
                \cup {ss.entries[k].text : k \in DOMAIN ss.entries}

\* words i and i+1 of the stripped text read "initial dose" in some case
SaysInitialDose(t) ==
    \E i \in 1..(Len(t) - 1) : Lower(t)[i] = "initial" /\ Lower(t)[i + 1] = "dose"

\* the text starts with a patient code, is no maintenance dose and does not
\* say "initial dose"
WantsSuffix(t) ==
    /\ t # << >> /\ Head(t) \in PatientCodes
    /\ \A i \in 1..Len(t) : Lower(t)[i] \notin {"md1", "md2", "md3"}
    /\ ~SaysInitialDose(t)

SuffixedRight(t, n) ==
    /\ n = IF WantsSuffix(Strip(t)) THEN Strip(t) \o <<"Initial", "Dose">> ELSE Strip(t)
    /\ _ensure_initial_suffix(n) = n

RunAfterSwitch ==
    /\ act.op = "switch" /\ pc = "run" /\ act'.op = "run"
    /\ LoadOk(disk)

\* the text is neither blank nor one that the auto-fill passes write
TypedText(t, s) ==
    /\ Strip(t) # << >>
    /\ Lower(Strip(t)) # <<"weekend">>
    /\ ~IsHolidayName(Lower(Strip(t)), s)

\* the store holds every typed entry of the file
HoldsFile(s, data) ==
    \A k \in DOMAIN data.entries :
        TypedText(data.entries[k].text, s) =>
            k \in DOMAIN s.entries /\ Strip(s.entries[k].text) = Strip(data.entries[k].text)

\* the store holds the entries of the file and no other text typed by a user
AdoptedFile(s, data) ==
    /\ HoldsFile(s, data)
    /\ \A k \in DOMAIN s.entries :
          TypedText(s.entries[k].text, s) => k \in DOMAIN data.entries

\* the step is a commit or a press of Save Now that replaces the content of
\* a schedule file
OverwritesFile ==
    /\ pc = "idle" /\ act'.op \in {"commit", "save"}
    /\ LoadOk(disk)
    /\ disk'.data # disk.data

C27_Step ==
    /\ RunAfterSwitch => AdoptedFile(ss', disk.data)
    /\ OverwritesFile => HoldsFile(ss, disk.data)

\* C27: after the user entered a different directory that holds a valid
\* schedule file, the store in memory is replaced by the content of that
\* file before this process next writes the file; the file is never
\* overwritten with the store of the previous directory
C27_DirectorySwitchAdoptsFile == [][C27_Step]_vars


\* the file of the directory the user entered has been overwritten with the
\* note typed in the previous directory, and no longer holds its own dose
SwitchedFileOverwritten ==
    /\ act.op = "commit" /\ pc = "run"
    /\ ss.pending # << >>
    /\ <<Ord(2025, 1, 6), 0>> \in DOMAIN Head(ss.pending).entries
    /\ disk.state = "valid"
    /\ <<Ord(2025, 1, 6), 0>> \notin DOMAIN disk.data.entries


\* the keys whose entry is cancelled before the step and stands uncancelled
\* after it
Uncancelled ==
    {k \in DOMAIN ss.entries \cap DOMAIN ss'.entries :
        ss.entries[k].cancelled /\ ~ss'.entries[k].cancelled}

\* the step is a single-cell commit of text other than "delete" to a cell
\* whose entry is cancelled
CommitToCancelled ==
    /\ pc = "idle" /\ act'.op = "commit"
    /\ Lower(Strip(act'.raw)) # <<"delete">>
    /\ act'.dkey \in DOMAIN ss.entries
    /\ ss.entries[act'.dkey].cancelled

C28_Step ==
    /\ Uncancelled # {} => (BootLoads \/ WatchdogLoads \/ ReloadLoads)
    /\ CommitToCancelled => \A code \in PatientCodes : NewDoses(code) \subseteq {act'.dkey}

\* C28: once the cancelled flag of an entry is true, no later commit, single
\* or batch, of text other than "delete" sets it back to false, and the
\* single-cell commit schedules no maintenance doses from that cell; an
\* entry that is not cancelled stands at that key again only after "delete"
\* or a reload
C28_CancellationIsOneWay == [][C28_Step]_vars

\* the same for the cell the commit is made to: this is what the commit does
CancelledCellStaysCancelled ==
    [][CommitToCancelled =>
          /\ act'.dkey \in DOMAIN ss'.entries => ss'.entries[act'.dkey].cancelled
          /\ \A code \in PatientCodes : NewDoses(code) \subseteq {act'.dkey}]_vars


\* the names that the step added to the list of suppressed holidays
NewlySuppressed ==
    {n \in {HolidayTable[ss.current_year][d] : d \in DOMAIN HolidayTable[ss.current_year]} :
        InSeq(n, ss'.suppressed_us_holidays) /\ ~InSeq(n, ss.suppressed_us_holidays)}

\* the entry at k is the placeholder of a holiday that the step suppressed
SuppressedPlaceholder(k) ==
    /\ k[2] = 0
    /\ k[1] \in DOMAIN HolidayTable[ss.current_year]
    /\ HolidayTable[ss.current_year][k[1]] \in NewlySuppressed
    /\ ss.entries[k].text = HolidayTable[ss.current_year][k[1]]

C29_Step ==
    (pc = "idle" /\ act'.op = "toggle_holiday" /\ uncaught' = "") =>
        \A k \in DOMAIN ss.entries :
            \/ k \in DOMAIN ss'.entries /\ ss'.entries[k] = ss.entries[k]
            \/ SuppressedPlaceholder(k)

\* C29: the button that removes a federal holiday adds the name of the
\* holiday to the suppressed list and removes at most the auto-filled entry
\* that holds this name at row 0 of its date; a row-0 entry on that date
\* with any other text is left as it is
C29_SuppressionRemovesOnlyPlaceholder == [][C29_Step]_vars


\* the step is a month navigation that directly follows the script run in
\* which the watchdog found a newer file: nothing was typed in between
NavAfterWatchdogReload ==
    /\ pc = "idle" /\ act.op = "run" /\ act.stale
    /\ act'.op \in {"prev", "next"}
    /\ NavStart.exc = ""

\* the structured entries that the step put at keys the store did not hold
Recreated == {k \in DOMAIN ss'.entries \ DOMAIN ss.entries : ss'.entries[k].kind = "dict"}

C30_Step == NavAfterWatchdogReload => Recreated = {}

\* C30: an entry that a reload removed from the store because the file does
\* not hold it is not created again by the batch commit of a later month
\* navigation, unless the user typed into that cell after the reload: the
\* widget value left from before the reload does not flow back into the store
C30_ReloadedDeletionsStayDeleted == [][C30_Step]_vars

=============================================================================
